---- MODULE Spec2Model ----
(***************************************************************************)
(* Model of the screener pipeline of src/app/api/fetch/route.ts: the GET   *)
(* handler's background task (discovery loop, technical filter, sector     *)
(* enrichment, event stream) and the helpers it calls.                     *)
(*                                                                         *)
(* A string is a sequence of one-character strings; an optional value      *)
(* (T | null | undefined) is a sequence of length 0 or 1.                  *)
(***************************************************************************)
EXTENDS Integers, Sequences, FiniteSets, TLC

\* ---------------------------------------------------------------- constants
PAGE_LIMIT == 100
FETCH_DELAY_MS == 800
RETRIES_PER_PAGE == 3
FILTER_DELAY_MS == 250
SECTOR_DELAY_MS == 300
HTTP_RATE_LIMITED == 429
MIN_HISTORY == 50
SMA_WINDOW == 200
ATH_THRESHOLD_NUM == 1
ATH_THRESHOLD_DEN == 2
BATCH_SIZE == 30

\* ------------------------------------------------------------------- bounds
\* rows of one listing page
MaxRows == 2
\* listing pages that may still link a next page, in the full-pipeline runs
MaxListingPages == 2
\* warning signals in a list handed to the deduplication step on its own
MaxSignals == 3
\* symbols in a list handed to splitIntoBatches on its own
MaxSymbols == 65
\* the longest feed handed to fetchAdverseNewsSignal on its own
MaxItems == 3
\* the most events in a response read by the client on its own
MaxEvents == 2

None == <<>>
Some(x) == <<x>>

\* ------------------------------------------------------------------ strings
IsSpace(c) == c = " "

UPPER == <<"A", "B", "C", "D", "E", "F", "G", "H", "I", "J", "K", "L", "M",
          "N", "O", "P", "Q", "R", "S", "T", "U", "V", "W", "X", "Y", "Z">>
LOWER == <<"a", "b", "c", "d", "e", "f", "g", "h", "i", "j", "k", "l", "m",
          "n", "o", "p", "q", "r", "s", "t", "u", "v", "w", "x", "y", "z">>

toUpperCase(c) ==
  IF \E k \in 1..Len(LOWER) : LOWER[k] = c
  THEN UPPER[CHOOSE k \in 1..Len(LOWER) : LOWER[k] = c]
  ELSE c

RECURSIVE trimStart(_)
trimStart(s) ==
  IF s = <<>> THEN <<>>
  ELSE IF IsSpace(Head(s)) THEN trimStart(Tail(s)) ELSE s

RECURSIVE trimEnd(_)
trimEnd(s) ==
  IF s = <<>> THEN <<>>
  ELSE IF IsSpace(s[Len(s)]) THEN trimEnd(SubSeq(s, 1, Len(s) - 1)) ELSE s

trim(s) == trimEnd(trimStart(s))

upper(s) == [k \in 1..Len(s) |-> toUpperCase(s[k])]

\* Array.prototype.join
RECURSIVE join(_, _)
join(list, sep) ==
  IF list = <<>> THEN <<>>
  ELSE IF Len(list) = 1 THEN list[1]
  ELSE LET half == Len(list) \div 2
       IN  join(SubSeq(list, 1, half), sep) \o sep
             \o join(SubSeq(list, half + 1, Len(list)), sep)

\* slice(start, end) with 0-based start and exclusive end
slice(list, start, end) ==
  SubSeq(list, start + 1, IF end < Len(list) THEN end ELSE Len(list))

\* a normalisation that keeps the letter case
normalizeSymbolKeepCase(raw) ==
  IF raw = None \/ raw[1] = <<>> THEN None
  ELSE LET cleaned == trim(raw[1])
       IN  IF cleaned = <<>> THEN None ELSE Some(cleaned)

\* normalizeSymbol: null for an absent or empty input, else the trimmed
\* upper-case text, or null when that is empty.
normalizeSymbol(raw) ==
  IF raw = None \/ raw[1] = <<>> THEN None
  ELSE LET cleaned == upper(trim(raw[1]))
       IN  IF cleaned = <<>> THEN None ELSE Some(cleaned)

\* split("/").filter(Boolean): the non-empty segments between slashes
RECURSIVE splitSegments(_, _)
splitSegments(s, segment) ==
  IF s = <<>> THEN (IF segment = <<>> THEN <<>> ELSE <<segment>>)
  ELSE IF Head(s) = "/"
       THEN (IF segment = <<>> THEN <<>> ELSE <<segment>>) \o splitSegments(Tail(s), <<>>)
       ELSE splitSegments(Tail(s), Append(segment, Head(s)))

COMPANY == <<"c", "o", "m", "p", "a", "n", "y">>

\* indexOf: the first index holding v, 0 when there is none
indexOf(seq, v) ==
  IF \E k \in 1..Len(seq) : seq[k] = v
  THEN CHOOSE k \in 1..Len(seq) : seq[k] = v /\ \A m \in 1..(k - 1) : seq[m] # v
  ELSE 0

extractFromHref(href) ==
  IF href = None \/ href[1] = <<>> THEN None
  ELSE LET segments == splitSegments(trim(href[1]), <<>>)
           companyIndex == indexOf(segments, COMPANY)
       IN  IF companyIndex # 0 /\ Len(segments) > companyIndex
           THEN normalizeSymbol(Some(segments[companyIndex + 1]))
           ELSE None

\* Set.add on an insertion-ordered Set
setAdd(set, v) == IF \E k \in 1..Len(set) : set[k] = v THEN set ELSE Append(set, v)

RECURSIVE setAddAll(_, _)
setAddAll(set, vs) ==
  IF vs = <<>> THEN set ELSE setAddAll(setAdd(set, Head(vs)), Tail(vs))

\* one table row: the href of its first link (if any) and its first cell's text
rowSymbol(row) ==
  LET hrefSymbol == extractFromHref(row.href)
  IN  IF hrefSymbol # None THEN hrefSymbol
      ELSE normalizeSymbol(Some(row.cell))

RECURSIVE rowSymbols(_)
rowSymbols(rows) ==
  IF rows = <<>> THEN <<>>
  ELSE LET s == rowSymbol(Head(rows))
       IN  (IF s = None THEN <<>> ELSE s) \o rowSymbols(Tail(rows))

parsePage(html) ==
  [symbols |-> setAddAll(<<>>, rowSymbols(html.rows)),
   hasNext |-> html.nextLink]

\* -------------------------------------------------------- upstream listing
\* The rows a listing page may hold: a company link, a bare first cell with
\* surrounding blanks, a blank row, and a link without a company segment.
CompanyLinkRow ==
  [href |-> Some(<<"/", "c", "o", "m", "p", "a", "n", "y", "/", "a", "b", "c", "/">>),
   cell |-> <<"x">>]
BareCellRow == [href |-> None, cell |-> <<" ", "b", " ">>]
BlankRow == [href |-> None, cell |-> <<" ">>]
OtherLinkRow == [href |-> Some(<<"/", "x", "/">>), cell |-> <<"A", "B", "C">>]

Rows == {CompanyLinkRow, BareCellRow, BlankRow, OtherLinkRow}

RowSeqs == UNION { [1..n -> Rows] : n \in 0..MaxRows }

Pages == [rows : RowSeqs, nextLink : BOOLEAN]

\* what a failed page request carries: an HTTP status, or 0 for no response
FailureStatuses == {0, HTTP_RATE_LIMITED, 500}

VARIABLES
  withFilters,    \* the filters option of the request
  listingPages,   \* upstream: how many leading pages may link a next page
  pc,             \* position of the background task
  awaiting,       \* the task is suspended on an awaited sendEvent
  page, hasNext, attempt, symbols,
  i, filtered,    \* technical-filter loop: 1-based index, passing symbols
  dailyChangeBySymbol, structureWarningsBySymbol,  \* the Maps of the filter loop
  j, cur, sectorResults,  \* enrichment loop: index, record being built, records
  inflight,       \* upstream requests issued and not yet answered
  timer,          \* the pending sleep in ms, 0 when none
  pending,        \* chunks handed to writer.write and not yet written
  out,            \* events written to the stream
  closing,        \* writer.close() was called
  closed,         \* the writer is closed
  sent,           \* history: events in the order sendEvent was called
  fetched,        \* history: pages fetched successfully, in order
  pageTrace,      \* history: requests and waits of the current fetchPageHtml call
  filterTrace,    \* history: requests and waits of applyFiltersWithSectorInfo
  lastPage,       \* history: what the page just fetched yielded, while the loop runs
  failures,       \* history: the kinds of per-symbol failure met so far
  lastPrice,      \* history: the price answer just handled, until the loop moves on
  lastRisk,       \* history: the answers behind the record being built or just built
  call,           \* a function applied on its own: its name, argument and result
  wire,           \* the client: text of the response not yet handed to the reader
  buffer,         \* the client: text read and not yet split into whole lines
  handled         \* the client: the events handed to setProgress, setData, setError

reqVars == <<withFilters, listingPages>>
discVars == <<page, hasNext, attempt, symbols, fetched, pageTrace, lastPage>>
mapVars == <<dailyChangeBySymbol, structureWarningsBySymbol>>
filtVars == <<i, filtered, mapVars, j, cur, sectorResults, filterTrace, failures, lastPrice, lastRisk>>
netVars == <<inflight, timer>>
sendVars == <<pending, sent, awaiting>>
endVars == <<out, closing, closed>>
callVars == <<call>>
clientVars == <<wire, buffer, handled>>

vars == <<callVars, clientVars, reqVars, pc, discVars, filtVars, netVars, sendVars, endVars>>

\* --------------------------------------------------------------- the stream
ProgressEvent(stage, msg, sym, n, current, total) ==
  [type |-> "progress", stage |-> stage, msg |-> msg, sym |-> sym, n |-> n,
   current |-> current, total |-> total]

ErrorEvent == [type |-> "error", msg |-> "Unable to fetch symbols right now"]

\* a write that overtakes the chunks still queued
writeOvertaking(queue, chunk) == <<chunk>> \o queue

\* writer.write: chunks are queued in call order
write(queue, chunk) == Append(queue, chunk)

\* await sendEvent(...): the task resumes when the chunk has been written
SendAwaited(e) ==
  /\ pending' = write(pending, e)
  /\ sent' = Append(sent, e)
  /\ awaiting' = TRUE

\* sendEvent(...) without await (the onProgress callback)
SendDetached(e) ==
  /\ pending' = write(pending, e)
  /\ sent' = Append(sent, e)
  /\ awaiting' = FALSE

Running == ~awaiting /\ ~closing

\* the stream moves the oldest queued chunk to the readable side
Drain ==
  /\ pending # <<>>
  /\ ~closed
  /\ out' = Append(out, Head(pending))
  /\ pending' = Tail(pending)
  /\ awaiting' = (awaiting /\ pending' # <<>>)
  /\ UNCHANGED <<callVars, clientVars, reqVars, pc, discVars, filtVars, netVars, closing, closed, sent>>

\* ---------------------------------------------------------------- discovery
NoRecord == [name |-> <<>>, sector |-> <<>>, industry |-> <<>>, signals |-> <<>>]

NoPrice ==
  [sym |-> <<>>, resp |-> [ok |-> FALSE, close |-> None, volume |-> None], error |-> ""]

\* new Map()
\* no record is being built
NoRisk == [sym |-> <<>>, profile |-> <<>>, news |-> <<>>, search |-> <<>>]

EmptyMap == <<>>

\* Map.set on a Map whose keys are symbols
mapSet(map, key, value) ==
  [k \in DOMAIN map \cup {key} |-> IF k = key THEN value ELSE map[k]]

\* Map.get(key) ?? fallback
mapGet(map, key, fallback) == IF key \in DOMAIN map THEN map[key] ELSE fallback

NoPage == [rows |-> <<>>, hasNext |-> FALSE, count |-> 0, fresh |-> 0]

InitTask ==
  /\ pc = "start"
  /\ awaiting = FALSE
  /\ page = 1
  /\ hasNext = TRUE
  /\ attempt = 0
  /\ symbols = <<>>
  /\ i = 0
  /\ filtered = <<>>
  /\ dailyChangeBySymbol = EmptyMap
  /\ structureWarningsBySymbol = EmptyMap
  /\ j = 0
  /\ cur = NoRecord
  /\ sectorResults = <<>>
  /\ inflight = {}
  /\ timer = 0
  /\ pending = <<>>
  /\ out = <<>>
  /\ closing = FALSE
  /\ closed = FALSE
  /\ sent = <<>>
  /\ fetched = <<>>
  /\ pageTrace = <<>>
  /\ filterTrace = <<>>
  /\ lastPage = NoPage
  /\ failures = {}
  /\ lastPrice = NoPrice
  /\ lastRisk = NoRisk

\* no function is being applied on its own
NoCall == [fn |-> "", arg |-> <<>>, done |-> FALSE, ret |-> <<>>]

\* the page has not started to read a response
ClientIdle == wire = <<>> /\ buffer = <<>> /\ handled = <<>>

Init ==
  /\ withFilters \in BOOLEAN
  /\ listingPages = MaxListingPages
  /\ InitTask
  /\ ClientIdle
  /\ call = NoCall

\* GET: first progress event, then the loop variables
Start ==
  /\ pc = "start" /\ Running
  /\ SendAwaited(ProgressEvent("screener", "start", <<>>, 0, 0, 0))
  /\ pc' = "loop"
  /\ UNCHANGED <<callVars, clientVars, reqVars, discVars, filtVars, netVars, endVars>>

\* a cap that lets one page too many through
loopConditionOffByOne(hn, p) == hn /\ p <= PAGE_LIMIT + 1

\* while (hasNext && page <= PAGE_LIMIT)
loopCondition(hn, p) == hn /\ p <= PAGE_LIMIT

\* a loop that fetches the pages without announcing them
LoopEnterSilent ==
  /\ pc = "loop" /\ Running
  /\ loopCondition(hasNext, page)
  /\ pc' = "fetch_page"
  /\ attempt' = 0
  /\ pageTrace' = <<>>
  /\ lastPage' = NoPage
  /\ UNCHANGED <<callVars, clientVars, reqVars, page, hasNext, symbols, fetched, filtVars, netVars, sendVars,
                 endVars>>

\* the page announcement, then fetchPageHtml(page)
LoopEnter ==
  /\ pc = "loop" /\ Running
  /\ loopCondition(hasNext, page)
  /\ SendAwaited(ProgressEvent("screener", "page", <<>>, 0, page, 0))
  /\ pc' = "fetch_page"
  /\ attempt' = 0
  /\ pageTrace' = <<>>
  /\ lastPage' = NoPage
  /\ UNCHANGED <<callVars, clientVars, reqVars, page, hasNext, symbols, fetched, filtVars, netVars, endVars>>

LoopExit ==
  /\ pc = "loop" /\ Running
  /\ ~loopCondition(hasNext, page)
  /\ pc' = "found"
  /\ lastPage' = NoPage
  /\ UNCHANGED <<callVars, clientVars, reqVars, page, hasNext, attempt, symbols, fetched, pageTrace, filtVars,
                 netVars, sendVars, endVars>>

PageRequest(p) == [kind |-> "page", key |-> <<p>>]

\* fetchPageHtml: while (attempt < RETRIES_PER_PAGE) axios.get(url), else throw
IssuePageRequest ==
  /\ pc = "fetch_page" /\ Running
  /\ IF attempt < RETRIES_PER_PAGE
     THEN /\ inflight' = inflight \cup {PageRequest(page)}
          /\ pageTrace' = Append(pageTrace, [op |-> "request", arg |-> page])
          /\ pc' = "page_wait"
     ELSE /\ pc' = "catch"
          /\ UNCHANGED <<inflight, pageTrace>>
  /\ UNCHANGED <<callVars, clientVars, reqVars, page, hasNext, attempt, symbols, fetched, lastPage, filtVars,
                 timer, sendVars, endVars>>

\* going on whenever the page links a next page
nextHasNextLinkOnly(pageHasNext, pageSymbols) == pageHasNext

\* hasNext = pageHasNext && pageSymbols.length > 0
nextHasNext(pageHasNext, pageSymbols) == pageHasNext /\ Len(pageSymbols) > 0

\* a 2xx answer: parsePage, union, advance, inter-page delay
PageResponseOk ==
  /\ pc = "page_wait" /\ Running
  /\ PageRequest(page) \in inflight
  /\ \E html \in Pages :
       /\ html.nextLink => page <= listingPages
       /\ \E parsed \in {parsePage(html)} :
            \E all \in {setAddAll(symbols, parsed.symbols)} :
              \E hn \in {nextHasNext(parsed.hasNext, parsed.symbols)} :
                /\ symbols' = all
                /\ lastPage' = [rows |-> html.rows, hasNext |-> parsed.hasNext,
                                count |-> Len(parsed.symbols),
                                fresh |-> Len(all) - Len(symbols)]
                /\ hasNext' = hn
                /\ timer' = IF hn THEN FETCH_DELAY_MS ELSE 0
                /\ pc' = IF hn THEN "page_sleep" ELSE "loop"
  /\ inflight' = inflight \ {PageRequest(page)}
  /\ fetched' = Append(fetched, page)
  /\ page' = page + 1
  /\ attempt' = 0
  /\ pageTrace' = <<>>
  /\ UNCHANGED <<callVars, clientVars, reqVars, filtVars, sendVars, endVars>>

\* any HTTP error answer taken for a rate limit
isRateLimitedAnyStatus(status) == status # 0

\* err.response?.status === 429
isRateLimited(status) == status = HTTP_RATE_LIMITED

\* the catch block's decision after attempt += 1
shouldRetry(status, att) == isRateLimited(status) /\ att < RETRIES_PER_PAGE

\* a constant backoff
backoffMsConstant(att) == FETCH_DELAY_MS

\* sleep(FETCH_DELAY_MS * attempt)
backoffMs(att) == FETCH_DELAY_MS * att

\* a fallback that goes on with the symbols of the pages fetched so far
afterPageFailurePartial == "found"

\* throw err: nothing between fetchPageHtml and GET's catch handles it
afterPageFailure == "catch"

\* a failed request: retry with backoff on 429, else rethrow
PageResponseFail ==
  /\ pc = "page_wait" /\ Running
  /\ PageRequest(page) \in inflight
  /\ \E status \in FailureStatuses :
       /\ attempt' = attempt + 1
       /\ IF shouldRetry(status, attempt + 1)
          THEN /\ timer' = backoffMs(attempt + 1)
               /\ pc' = "backoff"
               /\ pageTrace' = pageTrace \o <<[op |-> "failed", arg |-> status],
                                               [op |-> "wait", arg |-> backoffMs(attempt + 1)]>>
          ELSE /\ timer' = 0
               /\ pc' = afterPageFailure
               /\ pageTrace' = Append(pageTrace, [op |-> "failed", arg |-> status])
  /\ inflight' = inflight \ {PageRequest(page)}
  /\ UNCHANGED <<callVars, clientVars, reqVars, page, hasNext, symbols, fetched, lastPage, filtVars, sendVars,
                 endVars>>

\* where the task goes on once `await sleep(...)` resolves
afterSleep(at) ==
  CASE at = "page_sleep" -> "loop"
    [] at = "backoff" -> "fetch_page"
    [] at = "f_sleep" -> "f_loop"
    [] at = "s_sleep" -> "s_loop"

\* the pending setTimeout fires; the for loops then run their i++
TimerFires ==
  /\ timer # 0 /\ Running
  /\ pc \in {"page_sleep", "backoff", "f_sleep", "s_sleep"}
  /\ timer' = 0
  /\ pc' = afterSleep(pc)
  /\ i' = IF pc = "f_sleep" THEN i + 1 ELSE i
  /\ j' = IF pc = "s_sleep" THEN j + 1 ELSE j
  /\ lastPrice' = NoPrice
  /\ lastRisk' = NoRisk
  /\ UNCHANGED <<callVars, clientVars, reqVars, discVars, filtered, mapVars, cur, sectorResults, filterTrace,
                 failures, inflight, sendVars, endVars>>

\* a run that filters whatever the request asked for
afterDiscoveryAlwaysFilter(wf) == "filter_start"

\* const rawSymbols = Array.from(symbols); the symbol-count event
afterDiscovery(wf) == IF wf THEN "filter_start" ELSE "result"

Found ==
  /\ pc = "found" /\ Running
  /\ SendAwaited(ProgressEvent("screener", "found", <<>>, Len(symbols), page - 1, page - 1))
  /\ pc' = afterDiscovery(withFilters)
  /\ UNCHANGED <<callVars, clientVars, reqVars, discVars, filtVars, netVars, endVars>>

\* ------------------------------------------------------------------ numbers
abs(n) == IF n < 0 THEN 0 - n ELSE n

RECURSIVE gcd(_, _)
gcd(a, b) == IF b = 0 THEN a ELSE gcd(b, a % b)

\* A price or a volume is an integer; a number computed by a division is the
\* exact ratio <<numerator, denominator>>, denominator positive, in lowest terms.
Frac(n, d) ==
  LET g == gcd(abs(n), abs(d))
      sgn == IF d < 0 THEN 0 - 1 ELSE 1
  IN  <<sgn * (n \div g), sgn * (d \div g)>>

fint(n) == <<n, 1>>
fadd(a, b) == Frac(a[1] * b[2] + b[1] * a[2], a[2] * b[2])
fsub(a, b) == Frac(a[1] * b[2] - b[1] * a[2], a[2] * b[2])
fmul(a, b) == Frac(a[1] * b[1], a[2] * b[2])
fdiv(a, n) == Frac(a[1], a[2] * n)
flt(a, b) == a[1] * b[2] < b[1] * a[2]
fle(a, b) == a[1] * b[2] <= b[1] * a[2]
fabs(a) == <<abs(a[1]), a[2]>>

\* reduce((sum, value) => sum + value, 0)
RECURSIVE fsum(_)
fsum(values) ==
  IF values = <<>> THEN fint(0)
  ELSE IF Len(values) = 1 THEN values[1]
  ELSE LET half == Len(values) \div 2
       IN  fadd(fsum(SubSeq(values, 1, half)), fsum(SubSeq(values, half + 1, Len(values))))

\* ((to - from) / from) * 100
pctChange(from, to) == Frac(100 * (to - from), from)

DIGITS == <<"0", "1", "2", "3", "4", "5", "6", "7", "8", "9">>

\* the decimal text of a natural number
RECURSIVE digits(_)
digits(n) == IF n < 10 THEN <<DIGITS[n + 1]>> ELSE Append(digits(n \div 10), DIGITS[(n % 10) + 1])

RECURSIVE pow10(_)
pow10(d) == IF d = 0 THEN 1 ELSE 10 * pow10(d - 1)

\* the last d decimal digits of n, with leading zeros
RECURSIVE padded(_, _)
padded(n, d) == IF d = 0 THEN <<>> ELSE Append(padded(n \div 10, d - 1), DIGITS[(n % 10) + 1])

\* the text of n / 10^d
fixedText(n, d) ==
  digits(n \div pow10(d)) \o (IF d = 0 THEN <<>> ELSE <<".">> \o padded(n % pow10(d), d))

\* Number.prototype.toFixed(d): the nearest multiple of 10^-d, the larger one
\* on a tie
toFixed(x, d) ==
  LET n == (2 * abs(x[1]) * pow10(d) + x[2]) \div (2 * x[2])
  IN  (IF x[1] < 0 THEN <<"-">> ELSE <<>>) \o fixedText(n, d)

\* Math.sqrt(v).toFixed(2) for v >= 0: the n with (n - 1/2)^2 <= 10^4 v < (n + 1/2)^2
sqrtToFixed2(v) ==
  LET q == (40000 * v[1]) \div v[2]
      top == IF q < 23169 THEN q ELSE 23169
      n == CHOOSE n \in 0..top : (n = 0 \/ (2 * n - 1) * (2 * n - 1) <= q)
                                  /\ q < (2 * n + 1) * (2 * n + 1)
  IN  fixedText(n, 2)

\* --------------------------------------------------------- technical filter
\* reduce((sum, val) => sum + val, 0)
RECURSIVE sum(_)
sum(seq) ==
  IF seq = <<>> THEN 0
  ELSE IF Len(seq) = 1 THEN seq[1]
  ELSE LET half == Len(seq) \div 2
       IN  sum(SubSeq(seq, 1, half)) + sum(SubSeq(seq, half + 1, Len(seq)))

\* reduce((max, val) => (val > max ? val : max), closes[0])
maxOf(seq) == CHOOSE v \in {seq[k] : k \in 1..Len(seq)} : \A k \in 1..Len(seq) : seq[k] <= v

\* Math.min(...window)
minOf(seq) == CHOOSE v \in {seq[k] : k \in 1..Len(seq)} : \A k \in 1..Len(seq) : v <= seq[k]

\* slice(-n)
lastN(seq, n) == IF Len(seq) <= n THEN seq ELSE SubSeq(seq, Len(seq) - n + 1, Len(seq))

\* closeRaw.filter(typeof c === "number")
numeric(raw) ==
  LET present == SelectSeq(raw, LAMBDA c : c # None)
  IN  [k \in 1..Len(present) |-> present[k][1]]

\* [...values].sort((a, b) => a - b): the value of rank r is the one with
\* fewer than r values below it and at least r values not above it
sortAscending(values) ==
  LET below(v) == Cardinality({k \in 1..Len(values) : values[k] < v})
      upTo(v) == Cardinality({k \in 1..Len(values) : values[k] <= v})
  IN  [r \in 1..Len(values) |->
         CHOOSE v \in {values[k] : k \in 1..Len(values)} : below(v) < r /\ r <= upTo(v)]

\* median: null for no value, else the middle value or the mean of the two
median(values) ==
  IF Len(values) = 0 THEN None
  ELSE LET sorted == sortAscending(values)
           middle == Len(sorted) \div 2
       IN  IF Len(sorted) % 2 = 0
           THEN Some(Frac(sorted[middle] + sorted[middle + 1], 2))
           ELSE Some(fint(sorted[middle + 1]))

\* the variance stdDev takes the square root of; 0 for fewer than two values
variance(values) ==
  IF Len(values) < 2 THEN fint(0)
  ELSE LET mean == fdiv(fsum(values), Len(values))
           squares == [k \in 1..Len(values) |->
                         fmul(fsub(values[k], mean), fsub(values[k], mean))]
       IN  fdiv(fsum(squares), Len(values))

formatCompactNumber(value) ==
  IF fle(fint(1000000000), value) THEN toFixed(fdiv(value, 1000000000), 2) \o <<"B">>
  ELSE IF fle(fint(1000000), value) THEN toFixed(fdiv(value, 1000000), 2) \o <<"M">>
  ELSE IF fle(fint(1000), value) THEN toFixed(fdiv(value, 1000), 2) \o <<"K">>
  ELSE toFixed(value, 0)

\* one point per index whose close and previous close are numbers, the
\* previous one not 0: the return in percent and the volume of that index
buildStructurePoints(closeRaw, volumeRaw) ==
  LET kept == SelectSeq([k \in 1..Len(closeRaw) |-> k],
                        LAMBDA k : /\ k > 1
                                   /\ closeRaw[k - 1] # None /\ closeRaw[k] # None
                                   /\ closeRaw[k - 1][1] # 0)
  IN  [m \in 1..Len(kept) |->
         [retPct |-> pctChange(closeRaw[kept[m] - 1][1], closeRaw[kept[m]][1]),
          volume |-> IF kept[m] <= Len(volumeRaw) THEN volumeRaw[kept[m]] ELSE None]]

StructureSignal(id, reason, details) ==
  [id |-> id, category |-> "structure", reason |-> reason, details |-> details,
   sourceUrl |-> None, sourceLabel |-> None]

count(seq, Test(_)) == Cardinality({k \in 1..Len(seq) : Test(seq[k])})

\* a cluster of two sessions already counts
extremeMovesSignalTwoDays(oneYearPoints) ==
  LET extremeMoveDays == count(oneYearPoints, LAMBDA p : fle(fint(18), fabs(p.retPct)))
  IN  IF extremeMoveDays >= 2
      THEN <<StructureSignal(<<"s", "t", "r", "u", "c", "t", "u", "r", "e", "-", "e", "x", "t", "r", "e", "m", "e", "-", "m", "o", "v", "e", "s">>, "Cluster of extreme daily moves",
               <<"D", "e", "t", "e", "c", "t", "e", "d", " ">> \o digits(extremeMoveDays)
                 \o <<" ", "s", "e", "s", "s", "i", "o", "n", "s", " ", "w", "i", "t", "h", " ", "a", "b", "s", "o", "l", "u", "t", "e", " ", "d", "a", "i", "l", "y", " ", "m", "o", "v", "e", " ", ">", "=", "1", "8", "%", " ", "i", "n", " ", "t", "h", "e", " ", "l", "a", "s", "t", " ", "1", " ", "y", "e", "a", "r", ".">>)>>
      ELSE <<>>

\* Signal 1: cluster of extreme daily moves
extremeMovesSignal(oneYearPoints) ==
  LET extremeMoveDays == count(oneYearPoints, LAMBDA p : fle(fint(18), fabs(p.retPct)))
  IN  IF extremeMoveDays >= 3
      THEN <<StructureSignal(<<"s", "t", "r", "u", "c", "t", "u", "r", "e", "-", "e", "x", "t", "r", "e", "m", "e", "-", "m", "o", "v", "e", "s">>, "Cluster of extreme daily moves",
               <<"D", "e", "t", "e", "c", "t", "e", "d", " ">> \o digits(extremeMoveDays)
                 \o <<" ", "s", "e", "s", "s", "i", "o", "n", "s", " ", "w", "i", "t", "h", " ", "a", "b", "s", "o", "l", "u", "t", "e", " ", "d", "a", "i", "l", "y", " ", "m", "o", "v", "e", " ", ">", "=", "1", "8", "%", " ", "i", "n", " ", "t", "h", "e", " ", "l", "a", "s", "t", " ", "1", " ", "y", "e", "a", "r", ".">>)>>
      ELSE <<>>

\* Signal 2: large return days with abnormal volume bursts
volumeBurstSignal(oneYearPoints) ==
  LET oneYearVolumes ==
        numeric([k \in 1..Len(oneYearPoints) |->
                   IF oneYearPoints[k].volume # None /\ oneYearPoints[k].volume[1] > 0
                   THEN oneYearPoints[k].volume ELSE None])
      volumeMedian == median(oneYearVolumes)
  IN  IF volumeMedian # None /\ flt(fint(0), volumeMedian[1])
      THEN LET abnormalBurstDays ==
                 count(oneYearPoints,
                       LAMBDA p : /\ p.volume # None
                                  /\ fle(fmul(volumeMedian[1], fint(6)), fint(p.volume[1]))
                                  /\ fle(fint(10), fabs(p.retPct)))
           IN  IF abnormalBurstDays >= 2
               THEN <<StructureSignal(<<"s", "t", "r", "u", "c", "t", "u", "r", "e", "-", "v", "o", "l", "u", "m", "e", "-", "b", "u", "r", "s", "t">>,
                        "Abnormal volume-price burst pattern",
                        <<"F", "o", "u", "n", "d", " ">> \o digits(abnormalBurstDays)
                          \o <<" ", "s", "e", "s", "s", "i", "o", "n", "s", " ", "w", "i", "t", "h", " ", ">", "=", "1", "0", "%", " ", "m", "o", "v", "e", " ", "a", "n", "d", " ", ">", "=", "6", "x", " ", "m", "e", "d", "i", "a", "n", " ", "v", "o", "l", "u", "m", "e", " ", "(", "m", "e", "d", "i", "a", "n", " ", "v", "o", "l", "u", "m", "e", " ">>
                          \o formatCompactNumber(volumeMedian[1]) \o <<")", ".">>)>>
               ELSE <<>>
      ELSE <<>>

\* the greatest of the values, and of 0
fmax0(values) ==
  IF values = {} THEN fint(0)
  ELSE LET m == CHOOSE v \in values : \A w \in values : fle(w, v)
       IN  IF flt(fint(0), m) THEN m ELSE fint(0)

\* a scan whose window after the peak ends one close early
pumpDumpScanShortWindow(closes) ==
  LET indices == {idx \in 0..(Len(closes) - 25) :
                    closes[idx + 1] > 0 /\ closes[idx + 11] > 0}
      pumpPct(idx) == pctChange(closes[idx + 1], closes[idx + 11])
      dumpPct(idx) ==
        LET pumpPeak == closes[idx + 11]
            postPumpMin == minOf(slice(closes, idx + 11, idx + 24))
        IN  Frac(100 * (pumpPeak - postPumpMin), pumpPeak)
      pumps == {idx \in indices : fle(fint(80), pumpPct(idx))}
      hits == {idx \in pumps : fle(fint(35), dumpPct(idx))}
      stop == IF hits = {} THEN Len(closes)
              ELSE CHOOSE idx \in hits : \A other \in hits : idx <= other
  IN  [pumpDumpDetected |-> hits # {},
       maxPumpPct |-> fmax0({pumpPct(idx) : idx \in {x \in indices : x <= stop}}),
       maxDumpPct |-> fmax0({dumpPct(idx) : idx \in {x \in pumps : x <= stop}})]

\* the loop of signal 3, with its three locals when it ends: the loop goes
\* through the 0-based indices idx with idx + 24 < length, skips those whose
\* start or peak price is not positive, and breaks at the first pump of 80%
\* or more that is followed by a dump of 35% or more
pumpDumpScan(closes) ==
  LET indices == {idx \in 0..(Len(closes) - 25) :
                    closes[idx + 1] > 0 /\ closes[idx + 11] > 0}
      pumpPct(idx) == pctChange(closes[idx + 1], closes[idx + 11])
      dumpPct(idx) ==
        LET pumpPeak == closes[idx + 11]
            postPumpMin == minOf(slice(closes, idx + 11, idx + 25))
        IN  Frac(100 * (pumpPeak - postPumpMin), pumpPeak)
      pumps == {idx \in indices : fle(fint(80), pumpPct(idx))}
      hits == {idx \in pumps : fle(fint(35), dumpPct(idx))}
      stop == IF hits = {} THEN Len(closes)
              ELSE CHOOSE idx \in hits : \A other \in hits : idx <= other
  IN  [pumpDumpDetected |-> hits # {},
       maxPumpPct |-> fmax0({pumpPct(idx) : idx \in {x \in indices : x <= stop}}),
       maxDumpPct |-> fmax0({dumpPct(idx) : idx \in {x \in pumps : x <= stop}})]

\* Signal 3: pump then dump geometry inside a short window
pumpDumpSignal(oneYearCloses) ==
  LET st == pumpDumpScan(oneYearCloses)
  IN  IF st.pumpDumpDetected
      THEN <<StructureSignal(<<"s", "t", "r", "u", "c", "t", "u", "r", "e", "-", "p", "u", "m", "p", "-", "d", "u", "m", "p">>, "Pump-then-dump price geometry",
               <<"O", "b", "s", "e", "r", "v", "e", "d", " ", "r", "a", "p", "i", "d", " ", "r", "i", "s", "e", " ", "(", "p", "e", "a", "k", " ", "p", "u", "m", "p", " ", "~">> \o toFixed(st.maxPumpPct, 1)
                 \o <<"%", ")", " ", "f", "o", "l", "l", "o", "w", "e", "d", " ", "b", "y", " ", "s", "h", "a", "r", "p", " ", "d", "r", "a", "w", "d", "o", "w", "n", " ", "(", "u", "p", " ", "t", "o", " ">> \o toFixed(st.maxDumpPct, 1)
                 \o <<"%", ")", " ", "i", "n", " ", "s", "h", "o", "r", "t", " ", "w", "i", "n", "d", "o", "w", "s", ".">>)>>
      ELSE <<>>

\* Signal 4: sharp spike followed by fast reversal
spikeReversalSignal(oneYearCloses) ==
  LET isEvent(idx) ==
        LET previousClose == oneYearCloses[idx]
            spikeClose == oneYearCloses[idx + 1]
            futureClose == oneYearCloses[idx + 6]
        IN  /\ previousClose > 0 /\ spikeClose > 0 /\ futureClose > 0
            /\ fle(fint(22), pctChange(previousClose, spikeClose))
            /\ fle(fint(18), Frac(100 * (spikeClose - futureClose), spikeClose))
      spikeReversalEvents == Cardinality({idx \in 1..(Len(oneYearCloses) - 6) : isEvent(idx)})
  IN  IF spikeReversalEvents >= 1
      THEN <<StructureSignal(<<"s", "t", "r", "u", "c", "t", "u", "r", "e", "-", "s", "p", "i", "k", "e", "-", "r", "e", "v", "e", "r", "s", "a", "l">>, "Spike-and-reversal behavior",
               digits(spikeReversalEvents)
                 \o <<" ", "e", "v", "e", "n", "t", "s", " ", "w", "h", "e", "r", "e", " ", "a", " ", "s", "h", "a", "r", "p", " ", "u", "p", "-", "s", "p", "i", "k", "e", " ", "w", "a", "s", " ", "f", "o", "l", "l", "o", "w", "e", "d", " ", "b", "y", " ", "a", " ", "s", "t", "e", "e", "p", " ", "r", "e", "v", "e", "r", "s", "a", "l", " ", "w", "i", "t", "h", "i", "n", " ", "5", " ", "s", "e", "s", "s", "i", "o", "n", "s", ".">>)>>
      ELSE <<>>

\* Signal 5: volatility regime shock vs earlier baseline; the standard
\* deviations, never negative, are compared through their squares
volRegimeShiftSignal(oneYearPoints) ==
  LET oneYearReturns == [k \in 1..Len(oneYearPoints) |-> oneYearPoints[k].retPct]
      n == Len(oneYearReturns)
  IN  IF n >= 170
      THEN LET recentVar == variance(lastN(oneYearReturns, 30))
               baselineVar == variance(SubSeq(oneYearReturns, n - 149, n - 30))
           IN  IF /\ flt(fint(0), baselineVar)
                  /\ fle(fmul(baselineVar, Frac(121, 25)), recentVar)
                  /\ fle(fint(49), recentVar)
               THEN <<StructureSignal(<<"s", "t", "r", "u", "c", "t", "u", "r", "e", "-", "v", "o", "l", "-", "r", "e", "g", "i", "m", "e", "-", "s", "h", "i", "f", "t">>, "Volatility regime shift",
                        <<"R", "e", "c", "e", "n", "t", " ", "3", "0", "-", "s", "e", "s", "s", "i", "o", "n", " ", "v", "o", "l", "a", "t", "i", "l", "i", "t", "y", " ", "(">> \o sqrtToFixed2(recentVar)
                          \o <<"%", ")", " ", "i", "s", " ", "s", "i", "g", "n", "i", "f", "i", "c", "a", "n", "t", "l", "y", " ", "a", "b", "o", "v", "e", " ", "b", "a", "s", "e", "l", "i", "n", "e", " ", "(">>
                          \o sqrtToFixed2(baselineVar) \o <<"%", ")", ".">>)>>
               ELSE <<>>
      ELSE <<>>

\* the five signals with the pump-dump one ahead of the volume one
getMarketStructureWarningsPumpFirst(closes, closeRaw, volumeRaw) ==
  LET structurePoints == buildStructurePoints(closeRaw, volumeRaw)
      oneYearPoints == lastN(structurePoints, 252)
      oneYearCloses == lastN(closes, 260)
  IN  extremeMovesSignal(oneYearPoints) \o pumpDumpSignal(oneYearCloses)
        \o volumeBurstSignal(oneYearPoints) \o spikeReversalSignal(oneYearCloses)
        \o volRegimeShiftSignal(oneYearPoints)

getMarketStructureWarnings(closes, closeRaw, volumeRaw) ==
  LET structurePoints == buildStructurePoints(closeRaw, volumeRaw)
      oneYearPoints == lastN(structurePoints, 252)
      oneYearCloses == lastN(closes, 260)
  IN  extremeMovesSignal(oneYearPoints) \o volumeBurstSignal(oneYearPoints)
        \o pumpDumpSignal(oneYearCloses) \o spikeReversalSignal(oneYearCloses)
        \o volRegimeShiftSignal(oneYearPoints)

\* a comparison that lets the price equal to its average through
passesFilterNotStrict(currentPrice, last200, ath) ==
  /\ currentPrice * Len(last200) >= sum(last200)
  /\ currentPrice * ATH_THRESHOLD_DEN >= ath * ATH_THRESHOLD_NUM

\* currentPrice > sma200 && currentPrice >= ath * ATH_THRESHOLD, on integers
passesFilter(currentPrice, last200, ath) ==
  /\ currentPrice * Len(last200) > sum(last200)
  /\ currentPrice * ATH_THRESHOLD_DEN >= ath * ATH_THRESHOLD_NUM

\* a history check that lets a series one close short through
hasEnoughHistoryOffByOne(last200) == ~(Len(last200) < MIN_HISTORY - 1)

\* if (last200.length < 50) throw
hasEnoughHistory(last200) == ~(Len(last200) < MIN_HISTORY)

Thrown(message) ==
  [error |-> message, passes |-> FALSE, dailyChangePct |-> None, structureWarnings |-> <<>>]

\* fetchMetrics after the request returned: error is "" when nothing is thrown
fetchMetrics(body) ==
  IF body.close = None THEN Thrown("No price data")
  ELSE LET closeRaw == body.close[1]
           volumeRaw == IF body.volume = None THEN <<>> ELSE body.volume[1]
           closes == numeric(closeRaw)
       IN  IF Len(closes) = 0 THEN Thrown("Empty prices")
           ELSE LET currentPrice == closes[Len(closes)]
                    previousClose == IF Len(closes) > 1 THEN Some(closes[Len(closes) - 1])
                                     ELSE None
                    ath == maxOf(closes)
                    last200 == lastN(closes, SMA_WINDOW)
                IN  IF ~hasEnoughHistory(last200) THEN Thrown("Insufficient history")
                    ELSE [error |-> "",
                          passes |-> passesFilter(currentPrice, last200, ath),
                          dailyChangePct |->
                            IF previousClose # None /\ previousClose[1] # 0
                            THEN Some(pctChange(previousClose[1], currentPrice))
                            ELSE None,
                          structureWarnings |->
                            getMarketStructureWarnings(closes, closeRaw, volumeRaw)]

flat(n, v) == [k \in 1..n |-> Some(v)]

Chart(close) == [ok |-> TRUE, close |-> Some(close), volume |-> None]

\* what the price service may answer: a failed request, a body without close
\* series, or a chart
PriceResponses ==
  { [ok |-> FALSE, close |-> None, volume |-> None],
    [ok |-> TRUE, close |-> None, volume |-> None],
    Chart(<<>>),
    Chart(<<None, None>>),
    Chart(<<None>> \o flat(MIN_HISTORY - 1, 100) \o <<None>>),
    Chart(flat(MIN_HISTORY - 1, 100) \o <<None, Some(150)>>),
    Chart(flat(MIN_HISTORY, 100)),
    Chart(<<Some(400)>> \o flat(MIN_HISTORY - 2, 100) \o <<Some(150)>>),
    Chart(<<Some(300)>> \o flat(MIN_HISTORY - 2, 100) \o <<Some(150)>>),
    Chart(flat(100, 290) \o flat(SMA_WINDOW - 1, 100) \o <<Some(150)>>),
    Chart(<<Some(400)>> \o flat(SMA_WINDOW, 100) \o <<Some(150)>>),
    Chart(flat(MIN_HISTORY - 4, 100) \o <<Some(120), Some(100), Some(120), Some(150)>>) }

\* every answer with what fetchMetrics makes of it
PriceOutcomes ==
  { [resp |-> resp,
     m |-> IF resp.ok THEN fetchMetrics(resp) ELSE Thrown("request failed")]
    : resp \in PriceResponses }

PriceRequest(sym) == [kind |-> "price", key |-> sym]

FilterStart ==
  /\ pc = "filter_start" /\ Running
  /\ SendAwaited(ProgressEvent("filter", "starting", <<>>, Len(symbols), 0, Len(symbols)))
  /\ pc' = "f_loop"
  /\ i' = 1
  /\ filtered' = <<>>
  /\ dailyChangeBySymbol' = EmptyMap
  /\ structureWarningsBySymbol' = EmptyMap
  /\ UNCHANGED <<callVars, clientVars, reqVars, discVars, j, cur, sectorResults, filterTrace, failures, lastPrice, lastRisk,
                 netVars, endVars>>

\* for (i < symbols.length): fetchMetrics(symbol) issues the price request
IssuePriceRequest ==
  /\ pc = "f_loop" /\ Running
  /\ i <= Len(symbols)
  /\ inflight' = inflight \cup {PriceRequest(symbols[i])}
  /\ filterTrace' = Append(filterTrace, [op |-> "price", sym |-> symbols[i], ms |-> 0])
  /\ pc' = "price_wait"
  /\ lastPrice' = NoPrice
  /\ UNCHANGED lastRisk
  /\ UNCHANGED <<callVars, clientVars, reqVars, discVars, i, filtered, mapVars, j, cur, sectorResults, failures,
                 timer, sendVars, endVars>>

\* a filter loop that lets the error of fetchMetrics escape
afterMetricsErrorRethrown == "catch"

\* the catch of the filter loop: report the symbol as skipped and continue
afterMetricsError == "f_loop"

\* the answer to the price request: the rest of fetchMetrics, then the try
\* block (report, await sleep(250)) or the catch block (report, continue)
PriceResponse ==
  /\ pc = "price_wait" /\ Running
  /\ PriceRequest(symbols[i]) \in inflight
  /\ inflight' = inflight \ {PriceRequest(symbols[i])}
  /\ \E o \in PriceOutcomes :
       /\ lastPrice' = [sym |-> symbols[i], resp |-> o.resp, error |-> o.m.error]
       /\ IF o.m.error # ""
          THEN /\ failures' = failures \cup {IF o.resp.ok THEN "metrics" ELSE "price"}
               /\ SendDetached(ProgressEvent("filter", "skipped", symbols[i], 0, i, Len(symbols)))
               /\ pc' = afterMetricsError
               /\ i' = i + 1
               /\ UNCHANGED <<filtered, mapVars, timer, filterTrace>>
          ELSE /\ IF o.m.passes
                  THEN /\ filtered' = Append(filtered, symbols[i])
                       /\ dailyChangeBySymbol' =
                            mapSet(dailyChangeBySymbol, symbols[i], o.m.dailyChangePct)
                       /\ structureWarningsBySymbol' =
                            mapSet(structureWarningsBySymbol, symbols[i], o.m.structureWarnings)
                       /\ SendDetached(ProgressEvent("filter", "passed", symbols[i], 0, i, Len(symbols)))
                  ELSE /\ UNCHANGED <<filtered, mapVars>>
                       /\ SendDetached(ProgressEvent("filter", "failed", symbols[i], 0, i, Len(symbols)))
               /\ timer' = FILTER_DELAY_MS
               /\ filterTrace' = Append(filterTrace, [op |-> "wait", sym |-> symbols[i], ms |-> FILTER_DELAY_MS])
               /\ pc' = "f_sleep"
               /\ i' = i
               /\ failures' = failures
  /\ UNCHANGED <<callVars, clientVars, reqVars, discVars, j, cur, sectorResults, lastRisk, endVars>>

\* ------------------------------------------------------------ text matching
IsAlnum(c) == (\E k \in 1..Len(LOWER) : LOWER[k] = c) \/ (\E k \in 1..Len(DIGITS) : DIGITS[k] = c)

toLowerCase(c) ==
  IF \E k \in 1..Len(UPPER) : UPPER[k] = c
  THEN LOWER[CHOOSE k \in 1..Len(UPPER) : UPPER[k] = c]
  ELSE c

lower(s) == [k \in 1..Len(s) |-> toLowerCase(s[k])]

\* replace(/\s+/g, " "): every run of blanks becomes one blank
collapseSpaces(s) ==
  LET kept == SelectSeq([k \in 1..Len(s) |-> k],
                        LAMBDA k : ~IsSpace(s[k]) \/ k = 1 \/ ~IsSpace(s[k - 1]))
  IN  [m \in 1..Len(kept) |-> IF IsSpace(s[kept[m]]) THEN " " ELSE s[kept[m]]]

normalizeText(value) == trim(collapseSpaces(lower(value)))

\* replace(/[^a-z0-9]/g, "")
compact(s) == SelectSeq(s, IsAlnum)

occursAt(text, part, p) == p + Len(part) - 1 <= Len(text) /\ SubSeq(text, p, p + Len(part) - 1) = part

\* String.prototype.includes
includes(text, part) == \E p \in 1..(Len(text) + 1) : occursAt(text, part, p)

\* a match that takes the token anywhere in the text
hasBoundedTokenMatchAnywhere(haystack, token) ==
  IF token = <<>> THEN FALSE ELSE includes(haystack, lower(token))

\* (^|[^a-z0-9])token([^a-z0-9]|$), the token in lower case and taken literally
hasBoundedTokenMatch(haystack, token) ==
  IF token = <<>> THEN FALSE
  ELSE LET t == lower(token)
       IN  \E p \in 1..Len(haystack) :
             /\ occursAt(haystack, t, p)
             /\ (p = 1 \/ ~IsAlnum(haystack[p - 1]))
             /\ (p + Len(t) - 1 = Len(haystack) \/ ~IsAlnum(haystack[p + Len(t)]))

\* a reference check that takes a symbol of any length
hasCompanyReferenceAnySymbol(haystack, symbol, name) ==
  LET normalized == normalizeText(haystack)
  IN  IF hasBoundedTokenMatch(normalized, lower(symbol)) THEN TRUE
      ELSE IF name = None \/ name[1] = <<>> THEN FALSE
      ELSE IF includes(normalized, lower(name[1])) THEN TRUE
      ELSE LET compactName == compact(lower(name[1]))
           IN  IF Len(compactName) < 4 THEN FALSE
               ELSE includes(compact(normalized), compactName)

hasCompanyReference(haystack, symbol, name) ==
  LET normalized == normalizeText(haystack)
  IN  IF Len(symbol) >= 3 /\ hasBoundedTokenMatch(normalized, lower(symbol)) THEN TRUE
      ELSE IF name = None \/ name[1] = <<>> THEN FALSE
      ELSE IF includes(normalized, lower(name[1])) THEN TRUE
      ELSE LET compactName == compact(lower(name[1]))
           IN  IF Len(compactName) < 4 THEN FALSE
               ELSE includes(compact(normalized), compactName)

\* ------------------------------------------------------------ risk signals
ONE_YEAR_DAYS == 365

ADVERSE_NEWS_KEYWORDS ==
  << <<"m", "a", "r", "k", "e", "t", " ", "m", "a", "n", "i", "p", "u", "l", "a", "t", "i", "o", "n">>,
     <<"i", "n", "s", "i", "d", "e", "r", " ", "t", "r", "a", "d", "i", "n", "g">>,
     <<"f", "r", "o", "n", "t", " ", "r", "u", "n", "n", "i", "n", "g">>,
     <<"p", "r", "i", "c", "e", " ", "r", "i", "g", "g", "i", "n", "g">>,
     <<"p", "u", "m", "p", " ", "a", "n", "d", " ", "d", "u", "m", "p">>,
     <<"f", "r", "a", "u", "d">> >>

NEWS_ID == <<"n", "e", "w", "s", "-", "a", "d", "v", "e", "r", "s", "e", "-", "c", "o", "v", "e", "r", "a", "g", "e">>
SEBI_ID == <<"r", "e", "g", "u", "l", "a", "t", "o", "r", "y", "-", "s", "e", "b", "i", "-", "a", "d", "j", "u", "d", "i", "c", "a", "t", "i", "o", "n">>

\* `${signal.id}:${signal.details}:${signal.sourceUrl ?? ""}`
signalKey(signal) ==
  signal.id \o <<":">> \o signal.details \o <<":">>
    \o (IF signal.sourceUrl = None THEN <<>> ELSE signal.sourceUrl[1])

\* a deduplication by id alone
dedupeById(signals) ==
  LET F[k \in 0..Len(signals)] ==
        IF k = 0 THEN <<>>
        ELSE IF \A m \in 1..(k - 1) : signals[m].id # signals[k].id
             THEN Append(F[k - 1], signals[k]) ELSE F[k - 1]
  IN  F[Len(signals)]

\* Array.from(new Map(signals.map(s => [key, s])).values()): one entry per key,
\* at the position of the key's first occurrence, holding its last value
dedupe(signals) ==
  LET firstAt(k) == \A m \in 1..(k - 1) : signalKey(signals[m]) # signalKey(signals[k])
      lastWith(k) == CHOOSE m \in 1..Len(signals) :
                       /\ signalKey(signals[m]) = signalKey(signals[k])
                       /\ \A n \in (m + 1)..Len(signals) :
                            signalKey(signals[n]) # signalKey(signals[k])
      F[k \in 0..Len(signals)] ==
        IF k = 0 THEN <<>>
        ELSE IF firstAt(k) THEN Append(F[k - 1], signals[lastWith(k)]) ELSE F[k - 1]
  IN  F[Len(signals)]

\* the fields read from one feed item, trimmed; age is the time since
\* Date.parse(pubDate) in days, absent when the date does not parse
newsItem(raw) ==
  [title |-> trim(raw.title), description |-> trim(raw.description),
   link |-> trim(raw.link), publishedText |-> trim(raw.pubDate), age |-> raw.age]

\* item tests that take an item of any age, and one without a readable date
newsItemMatchesAnyAge(item, symbol, name) ==
  LET text == normalizeText(item.title \o <<" ">> \o item.description)
  IN  IF ~\E k \in 1..Len(ADVERSE_NEWS_KEYWORDS) : includes(text, ADVERSE_NEWS_KEYWORDS[k])
      THEN FALSE
      ELSE hasCompanyReference(text, symbol, name)

\* the three tests an item goes through, in this order
newsItemMatches(item, symbol, name) ==
  IF item.age = None \/ item.age[1] > ONE_YEAR_DAYS THEN FALSE
  ELSE LET text == normalizeText(item.title \o <<" ">> \o item.description)
       IN  IF ~\E k \in 1..Len(ADVERSE_NEWS_KEYWORDS) : includes(text, ADVERSE_NEWS_KEYWORDS[k])
           THEN FALSE
           ELSE hasCompanyReference(text, symbol, name)

\* fetchAdverseNewsSignal after the request returned (or failed): the first
\* feed item that is recent, adverse and about the company
adverseNewsSignal(resp, symbol, name) ==
  IF ~resp.ok THEN None
  ELSE LET items == [k \in 1..Len(resp.items) |-> newsItem(resp.items[k])]
           matches(k) == newsItemMatches(items[k], symbol, name)
       IN  IF \E k \in 1..Len(items) : matches(k)
           THEN LET selectedItem ==
                      items[CHOOSE k \in 1..Len(items) :
                              matches(k) /\ \A m \in 1..(k - 1) : ~matches(m)]
                IN  Some([id |-> NEWS_ID, category |-> "news",
                          reason |-> "Adverse news coverage in last 1 year",
                          details |-> selectedItem.title \o <<" ", "(">>
                                        \o selectedItem.publishedText \o <<")">>,
                          sourceUrl |-> IF selectedItem.link = <<>> THEN None
                                        ELSE Some(selectedItem.link),
                          sourceLabel |-> Some("News article")])
           ELSE None

\* fetchDuckDuckGoResults: the results with a title or a snippet, trimmed; a
\* failed request gives the empty list
fetchDuckDuckGoResults(resp) ==
  IF ~resp.ok THEN <<>>
  ELSE SelectSeq([k \in 1..Len(resp.results) |->
                    [title |-> trim(resp.results[k].title),
                     snippet |-> trim(resp.results[k].snippet),
                     url |-> resp.results[k].url]],
                 LAMBDA r : r.title # <<>> \/ r.snippet # <<>>)

searchResultMatches(result, symbol, name) ==
  LET text == normalizeText(result.title \o <<" ">> \o result.snippet \o <<" ">> \o result.url)
      hasAdjudicationMention ==
        includes(text, <<"a", "d", "j", "u", "d", "i", "c", "a", "t", "i", "o", "n">>) \/ includes(text, <<"a", "d", "j", "u", "d", "i", "c", "a", "t", "i", "n", "g", " ", "o", "f", "f", "i", "c", "e", "r">>)
      hasOrderMention == includes(text, <<"o", "r", "d", "e", "r">>)
      isSebiSource == includes(text, <<"s", "e", "b", "i", ".", "g", "o", "v", ".", "i", "n">>)
  IN  IF ~(isSebiSource /\ hasAdjudicationMention /\ hasOrderMention) THEN FALSE
      ELSE hasCompanyReference(text, symbol, name)

\* fetchSebiAdjudicationSignal: the first search result that is a regulator
\* order about the company
sebiAdjudicationSignal(results, symbol, name) ==
  LET matches(k) == searchResultMatches(results[k], symbol, name)
  IN  IF \E k \in 1..Len(results) : matches(k)
      THEN LET match == results[CHOOSE k \in 1..Len(results) :
                                  matches(k) /\ \A m \in 1..(k - 1) : ~matches(m)]
           IN  Some([id |-> SEBI_ID, category |-> "regulatory",
                     reason |-> "SEBI adjudication order reference",
                     details |-> IF match.title = <<>> THEN symbol ELSE match.title,
                     sourceUrl |-> IF match.url = <<>> THEN None ELSE Some(match.url),
                     sourceLabel |-> Some("SEBI/Index source")])
      ELSE None

\* feed items: one naming the symbols ABC and B, one naming the company, one
\* too old
SymbolNews ==
  [title |-> <<"F", "r", "a", "u", "d", " ", "a", "t", " ", "A", "B", "C", " ">>, description |-> <<"b", " ", "p", "r", "o", "b", "e">>, link |-> <<"n", ".", "i", "n", "/", "1">>,
   pubDate |-> <<"M", "o", "n">>, age |-> Some(30)]
NameNews ==
  [title |-> <<"A", "c", "m", "e", " ", " ", "i", "n", "s", "i", "d", "e", "r", " ", "t", "r", "a", "d", "i", "n", "g">>, description |-> <<>>, link |-> <<>>,
   pubDate |-> <<"T", "u", "e">>, age |-> Some(ONE_YEAR_DAYS)]
OldNews ==
  [title |-> <<"A", "B", "C", " ", "A", "c", "m", "e", " ", "f", "r", "a", "u", "d">>, description |-> <<>>, link |-> <<"n", ".", "i", "n", "/", "0">>,
   pubDate |-> <<"W", "e", "d">>, age |-> Some(ONE_YEAR_DAYS + 1)]

NewsResponses ==
  { [ok |-> FALSE, items |-> <<>>],
    [ok |-> TRUE, items |-> <<OldNews, NameNews, SymbolNews>>] }

\* search results: a regulator order naming the symbol, one naming the
\* company, and a page of the regulator that is no adjudication order
SymbolOrder ==
  [title |-> <<"A", "d", "j", "u", "d", "i", "c", "a", "t", "i", "o", "n", " ", "O", "r", "d", "e", "r", " ", "-", " ", "A", "B", "C">>, snippet |-> <<"r", "e", " ", "b">>, url |-> <<"s", "e", "b", "i", ".", "g", "o", "v", ".", "i", "n", "/", "1">>]
NameOrder ==
  [title |-> <<>>, snippet |-> <<"o", "r", "d", "e", "r", " ", "o", "f", " ", "t", "h", "e", " ", "a", "d", "j", "u", "d", "i", "c", "a", "t", "i", "n", "g", " ", "o", "f", "f", "i", "c", "e", "r", ",", " ", "A", "c", "m", "e", " ", "L", "t", "d">>,
   url |-> <<"s", "e", "b", "i", ".", "g", "o", "v", ".", "i", "n", "/", "2">>]
OtherPage ==
  [title |-> <<"A", "B", "C", " ", "A", "c", "m", "e", " ", "o", "r", "d", "e", "r">>, snippet |-> <<>>, url |-> <<"s", "e", "b", "i", ".", "g", "o", "v", ".", "i", "n", "/", "3">>]

SearchResponses ==
  { [ok |-> FALSE, results |-> <<>>],
    [ok |-> TRUE, results |-> <<OtherPage, NameOrder, SymbolOrder>>] }

\* ------------------------------------------------------------------ sectors
ALLOWED_INDUSTRIES ==
  { "Iron & Steel", "Aluminium & Copper", "Mining & Mineral products", "Metals & Mining",
    "Aerospace & Defense", "Defence",
    "Public Sector Bank", "Private Sector Bank", "Banks",
    "Passenger Cars & Utility Vehicles", "2/3 Wheelers", "Commercial Vehicles",
    "Auto Ancillaries", "Automobiles",
    "Asset Management", "Stock/ Commodity Brokers", "Finance", "Financial Services",
    "Holding Companies" }

SECTOR_CATEGORIES ==
  << [category |-> "Metals",
      industries |-> {"Iron & Steel", "Aluminium & Copper", "Mining & Mineral products",
                      "Metals & Mining"}],
     [category |-> "Defense", industries |-> {"Aerospace & Defense", "Defence"}],
     [category |-> "PSU Banks",
      industries |-> {"Public Sector Bank", "Private Sector Bank", "Banks"}],
     [category |-> "Auto",
      industries |-> {"Passenger Cars & Utility Vehicles", "2/3 Wheelers",
                      "Commercial Vehicles", "Auto Ancillaries", "Automobiles"}],
     [category |-> "Capital Markets",
      industries |-> {"Asset Management", "Stock/ Commodity Brokers", "Finance",
                      "Financial Services", "Holding Companies"}] >>

getCategoryFromIndustry(industry) ==
  IF \E k \in 1..Len(SECTOR_CATEGORIES) : industry \in SECTOR_CATEGORIES[k].industries
  THEN LET k == CHOOSE k \in 1..Len(SECTOR_CATEGORIES) :
                  /\ industry \in SECTOR_CATEGORIES[k].industries
                  /\ \A m \in 1..(k - 1) : industry \notin SECTOR_CATEGORIES[m].industries
       IN  Some(SECTOR_CATEGORIES[k].category)
  ELSE None

\* a lookup that falls back to the sector when the industry is not in the table
categoryOfWithFallback(sector, industry) ==
  IF industry # None /\ getCategoryFromIndustry(industry[1]) # None
  THEN getCategoryFromIndustry(industry[1])
  ELSE IF sector # None THEN getCategoryFromIndustry(sector[1])
  ELSE None

\* industry ? lookup(industry) : (sector ? lookup(sector) : null)
categoryOf(sector, industry) ==
  IF industry # None THEN getCategoryFromIndustry(industry[1])
  ELSE IF sector # None THEN getCategoryFromIndustry(sector[1])
  ELSE None

\* a filter that goes by the category instead of the industry
filterBySectorByCategory(sectorInfos) ==
  SelectSeq(sectorInfos, LAMBDA info : info.category # None)

\* sectorInfos.filter(info => info.industry && ALLOWED_INDUSTRIES.includes(info.industry))
RECURSIVE filterBySector(_)
filterBySector(sectorInfos) ==
  IF sectorInfos = <<>> THEN <<>>
  ELSE LET info == Head(sectorInfos)
           keep == /\ info.industry # None /\ info.industry[1] # ""
                   /\ info.industry[1] \in ALLOWED_INDUSTRIES
       IN  (IF keep THEN <<info>> ELSE <<>>) \o filterBySector(Tail(sectorInfos))

\* what the profile page may answer: a failed request, or the scraped labels
ProfileResponses ==
  { [ok |-> FALSE, name |-> None, sector |-> None, industry |-> None],
    [ok |-> TRUE, name |-> Some(<<"A", "c", "m", "e">>), sector |-> Some("Finance"), industry |-> Some("Banks")],
    [ok |-> TRUE, name |-> Some(<<"A", "c", "m", "e">>), sector |-> Some("Finance"), industry |-> Some("Software")],
    [ok |-> TRUE, name |-> None, sector |-> Some("Finance"), industry |-> None] }

\* the symbols a listing row may give, the names a profile page may give
ListedSymbols == {rowSymbol(row)[1] : row \in {r \in Rows : rowSymbol(r) # None}}
ScrapedNames == {None} \cup {resp.name : resp \in ProfileResponses}

\* every feed answer with what fetchAdverseNewsSignal makes of it
NewsOutcomes ==
  { [resp |-> resp, symbol |-> symbol, name |-> name,
     signal |-> adverseNewsSignal(resp, symbol, name)]
    : resp \in NewsResponses, symbol \in ListedSymbols, name \in ScrapedNames }

\* every search answer with what fetchSebiAdjudicationSignal makes of it
SearchOutcomes ==
  { [resp |-> resp, symbol |-> symbol, name |-> name,
     signal |-> sebiAdjudicationSignal(fetchDuckDuckGoResults(resp), symbol, name)]
    : resp \in SearchResponses, symbol \in ListedSymbols, name \in ScrapedNames }

\* ----------------------------------------------------------- enrichment loop
ProfileRequest(sym) == [kind |-> "profile", key |-> sym]
NewsRequest(sym) == [kind |-> "news", key |-> sym]
SearchRequest(sym) == [kind |-> "search", key |-> sym]

\* the technical-filter loop is over: announce the sector stage
FilterLoopExit ==
  /\ pc = "f_loop" /\ Running
  /\ i > Len(symbols)
  /\ SendDetached(ProgressEvent("filter", "sector_start", <<>>, Len(filtered), 0, Len(filtered)))
  /\ j' = 1
  /\ sectorResults' = <<>>
  /\ pc' = "s_loop"
  /\ lastPrice' = NoPrice
  /\ UNCHANGED lastRisk
  /\ UNCHANGED <<callVars, clientVars, reqVars, discVars, i, filtered, mapVars, cur, filterTrace, failures, netVars,
                 endVars>>

\* an enrichment step that requests the profile without reporting the symbol
IssueProfileRequestSilent ==
  /\ pc = "s_loop" /\ Running
  /\ j <= Len(filtered)
  /\ inflight' = inflight \cup {ProfileRequest(filtered[j])}
  /\ filterTrace' = Append(filterTrace, [op |-> "profile", sym |-> filtered[j], ms |-> 0])
  /\ pc' = "profile_wait"
  /\ UNCHANGED <<callVars, clientVars, reqVars, discVars, i, filtered, mapVars, j, cur, sectorResults, failures,
                 lastPrice, lastRisk, timer, sendVars, endVars>>

\* for (i < filtered.length): report, then fetchSectorFromScreener's request
IssueProfileRequest ==
  /\ pc = "s_loop" /\ Running
  /\ j <= Len(filtered)
  /\ SendDetached(ProgressEvent("filter", "sector", filtered[j], 0, j, Len(filtered)))
  /\ inflight' = inflight \cup {ProfileRequest(filtered[j])}
  /\ filterTrace' = Append(filterTrace, [op |-> "profile", sym |-> filtered[j], ms |-> 0])
  /\ pc' = "profile_wait"
  /\ UNCHANGED <<callVars, clientVars, reqVars, discVars, i, filtered, mapVars, j, cur, sectorResults, failures,
                 lastPrice, lastRisk, timer, endVars>>

\* both checks started together
riskRequestsAllAtOnce(sym) == {NewsRequest(sym), SearchRequest(sym)}

\* fetchRiskSignals awaits the news check before it starts the search
riskRequestsAtStart(sym) == {NewsRequest(sym)}

\* a catch branch that drops the structural signals of the technical filter
signalsAtStartOnFailure(ok, structureWarnings) == IF ok THEN structureWarnings ELSE <<>>

\* const signals = [...structureWarnings], in the try and in the catch branch
signalsAtStart(ok, structureWarnings) == structureWarnings

\* the name the risk checks get: the scraped one, null in the catch branch
nameForRisk(resp) == IF resp.ok THEN resp.name ELSE None

\* the profile answer (or the catch branch), then fetchRiskSignals starts
ProfileResponse ==
  /\ pc = "profile_wait" /\ Running
  /\ ProfileRequest(filtered[j]) \in inflight
  /\ \E resp \in ProfileResponses :
       /\ cur' = [name |-> nameForRisk(resp),
                  sector |-> IF resp.ok THEN resp.sector ELSE None,
                  industry |-> IF resp.ok THEN resp.industry ELSE None,
                  signals |-> signalsAtStart(resp.ok,
                                mapGet(structureWarningsBySymbol, filtered[j], <<>>))]
       /\ failures' = IF resp.ok THEN failures ELSE failures \cup {"profile"}
       /\ lastRisk' = [NoRisk EXCEPT !.sym = filtered[j], !.profile = Some(resp)]
  /\ inflight' = (inflight \ {ProfileRequest(filtered[j])}) \cup riskRequestsAtStart(filtered[j])
  /\ filterTrace' = Append(filterTrace, [op |-> "news", sym |-> filtered[j], ms |-> 0])
  /\ pc' = "news_wait"
  /\ UNCHANGED <<callVars, clientVars, reqVars, discVars, i, filtered, mapVars, j, sectorResults, lastPrice, timer,
                 sendVars, endVars>>

\* fetchAdverseNewsSignal returns (never throws); the search request follows
NewsResponse ==
  /\ pc = "news_wait" /\ Running
  /\ NewsRequest(filtered[j]) \in inflight
  /\ \E o \in NewsOutcomes :
       /\ o.symbol = filtered[j] /\ o.name = cur.name
       /\ cur' = [cur EXCEPT !.signals = @ \o o.signal]
       /\ failures' = IF o.resp.ok THEN failures ELSE failures \cup {"news"}
       /\ lastRisk' = [lastRisk EXCEPT !.news = Some(o.resp)]
  /\ inflight' = (inflight \ {NewsRequest(filtered[j])}) \cup {SearchRequest(filtered[j])}
  /\ filterTrace' = Append(filterTrace, [op |-> "search", sym |-> filtered[j], ms |-> 0])
  /\ pc' = "search_wait"
  /\ UNCHANGED <<callVars, clientVars, reqVars, discVars, i, filtered, mapVars, j, sectorResults, lastPrice, timer,
                 sendVars, endVars>>

\* a record whose flag looks at the textual signals only
SectorInfoFlagTextOnly(sym, rec, dailyChangePct, signals) ==
  LET dedupedSignals == dedupe(signals)
      dedupedReasons == [k \in 1..Len(dedupedSignals) |-> dedupedSignals[k].reason]
  IN  [symbol |-> sym, sector |-> rec.sector, industry |-> rec.industry,
       category |-> categoryOf(rec.sector, rec.industry), name |-> rec.name,
       dailyChangePct |-> dailyChangePct,
       hasRiskWarning |-> \E k \in 1..Len(dedupedSignals) :
                            dedupedSignals[k].category # "structure",
       warningReasons |-> dedupedReasons,
       warningSignals |-> dedupedSignals]

\* the record fetchSectorFromScreener returns, with what fetchRiskSignals
\* makes of the signals gathered
SectorInfo(sym, rec, dailyChangePct, signals) ==
  LET dedupedSignals == dedupe(signals)
      dedupedReasons == [k \in 1..Len(dedupedSignals) |-> dedupedSignals[k].reason]
  IN  [symbol |-> sym, sector |-> rec.sector, industry |-> rec.industry,
       category |-> categoryOf(rec.sector, rec.industry), name |-> rec.name,
       dailyChangePct |-> dailyChangePct,
       hasRiskWarning |-> Len(dedupedReasons) > 0,
       warningReasons |-> dedupedReasons,
       warningSignals |-> dedupedSignals]

\* fetchSebiAdjudicationSignal returns; dedupe; push the record; sleep(300)
SearchResponse ==
  /\ pc = "search_wait" /\ Running
  /\ SearchRequest(filtered[j]) \in inflight
  /\ \E o \in SearchOutcomes :
       /\ o.symbol = filtered[j] /\ o.name = cur.name
       /\ sectorResults' =
            Append(sectorResults,
                   SectorInfo(filtered[j], cur, mapGet(dailyChangeBySymbol, filtered[j], None),
                              cur.signals \o o.signal))
       /\ failures' = IF o.resp.ok THEN failures ELSE failures \cup {"search"}
       /\ lastRisk' = [lastRisk EXCEPT !.search = Some(o.resp)]
  /\ cur' = NoRecord
  /\ inflight' = inflight \ {SearchRequest(filtered[j])}
  /\ timer' = SECTOR_DELAY_MS
  /\ filterTrace' = Append(filterTrace, [op |-> "wait", sym |-> filtered[j], ms |-> SECTOR_DELAY_MS])
  /\ pc' = "s_sleep"
  /\ UNCHANGED <<callVars, clientVars, reqVars, discVars, i, filtered, mapVars, j, lastPrice, sendVars, endVars>>

\* applyFiltersWithSectorInfo returns
SectorLoopExit ==
  /\ pc = "s_loop" /\ Running
  /\ j > Len(filtered)
  /\ pc' = "complete"
  /\ UNCHANGED <<callVars, clientVars, reqVars, discVars, filtVars, netVars, sendVars, endVars>>

\* --------------------------------------------------------------- the result
formatted(list) == [k \in 1..Len(list) |-> <<"N", "S", "E", ":">> \o list[k]]

\* a loop that stops before a chunk shorter than batchSize
splitIntoBatchesFullOnly(list, batchSize) ==
  LET F[k \in 0..Len(list)] ==
        IF k + batchSize > Len(list) THEN <<>>
        ELSE <<join(slice(list, k, k + batchSize), <<",">>)>>
               \o F[IF k + batchSize < Len(list) THEN k + batchSize ELSE Len(list)]
  IN  F[0]

\* for (i = 0; i < symbols.length; i += batchSize) push(slice(i, i + batchSize).join(","))
splitIntoBatches(list, batchSize) ==
  LET F[k \in 0..Len(list)] ==
        IF k >= Len(list) THEN <<>>
        ELSE <<join(slice(list, k, k + batchSize), <<",">>)>>
               \o F[IF k + batchSize < Len(list) THEN k + batchSize ELSE Len(list)]
  IN  F[0]

symbolsOf(infos) == [k \in 1..Len(infos) |-> infos[k].symbol]

\* a result whose filtered stocks are only the records of the target sectors
ResultEventTargetStocksOnly(wf) ==
  [type |-> "result",
   total |-> Len(formatted(symbols)),
   batches |-> splitIntoBatches(formatted(symbols), BATCH_SIZE),
   filtered |->
     IF wf THEN Some([total |-> Len(formatted(filtered)),
                      batches |-> splitIntoBatches(formatted(filtered), BATCH_SIZE),
                      stocks |-> filterBySector(sectorResults)])
     ELSE None,
   sectorFiltered |->
     IF wf THEN LET sf == filterBySector(sectorResults)
                IN  Some([total |-> Len(sf), stocks |-> sf,
                          batches |-> splitIntoBatches(formatted(symbolsOf(sf)), BATCH_SIZE)])
     ELSE None]

ResultEvent(wf) ==
  [type |-> "result",
   total |-> Len(formatted(symbols)),
   batches |-> splitIntoBatches(formatted(symbols), BATCH_SIZE),
   filtered |->
     IF wf THEN Some([total |-> Len(formatted(filtered)),
                      batches |-> splitIntoBatches(formatted(filtered), BATCH_SIZE),
                      stocks |-> sectorResults])
     ELSE None,
   sectorFiltered |->
     IF wf THEN LET sf == filterBySector(sectorResults)
                IN  Some([total |-> Len(sf), stocks |-> sf,
                          batches |-> splitIntoBatches(formatted(symbolsOf(sf)), BATCH_SIZE)])
     ELSE None]

\* a closing progress event that stays in the filter stage
CompleteInFilterStage ==
  /\ pc = "complete" /\ Running
  /\ SendAwaited(ProgressEvent("filter", "done", <<>>, Len(filtered), Len(symbols), Len(symbols)))
  /\ pc' = "result"
  /\ UNCHANGED <<callVars, clientVars, reqVars, discVars, filtVars, netVars, endVars>>

Complete ==
  /\ pc = "complete" /\ Running
  /\ SendAwaited(ProgressEvent("complete", "done", <<>>, Len(filtered), Len(symbols), Len(symbols)))
  /\ pc' = "result"
  /\ UNCHANGED <<callVars, clientVars, reqVars, discVars, filtVars, netVars, endVars>>

Result ==
  /\ pc = "result" /\ Running
  /\ SendAwaited(ResultEvent(withFilters))
  /\ pc' = "finally"
  /\ UNCHANGED <<callVars, clientVars, reqVars, discVars, filtVars, netVars, endVars>>

\* catch (error): the terminal error event
Catch ==
  /\ pc = "catch" /\ Running
  /\ SendAwaited(ErrorEvent)
  /\ pc' = "finally"
  /\ UNCHANGED <<callVars, clientVars, reqVars, discVars, filtVars, netVars, endVars>>

\* a task that ends without closing the writer
FinallyWithoutClose ==
  /\ pc = "finally" /\ Running
  /\ pc' = "done"
  /\ UNCHANGED <<callVars, clientVars, reqVars, discVars, filtVars, netVars, sendVars, endVars>>

\* finally: writer.close() is queued behind the chunks still pending
Finally ==
  /\ pc = "finally" /\ Running
  /\ closing' = TRUE
  /\ pc' = "closing"
  /\ UNCHANGED <<callVars, clientVars, reqVars, discVars, filtVars, netVars, sendVars, out, closed>>

WriterClosed ==
  /\ closing /\ ~closed
  /\ pending = <<>>
  /\ closed' = TRUE
  /\ pc' = "done"
  /\ UNCHANGED <<callVars, clientVars, reqVars, discVars, filtVars, netVars, sendVars, out, closing>>

\* ------------------------------------------------------------ specifications
Next ==
  \/ Start \/ LoopEnter \/ LoopExit \/ IssuePageRequest \/ PageResponseOk
  \/ PageResponseFail \/ TimerFires \/ Found
  \/ FilterStart \/ IssuePriceRequest \/ PriceResponse \/ FilterLoopExit
  \/ IssueProfileRequest \/ ProfileResponse \/ NewsResponse \/ SearchResponse
  \/ SectorLoopExit \/ Complete \/ Result \/ Catch \/ Finally \/ WriterClosed
  \/ Drain

Spec == Init /\ [][Next]_vars

\* Fairness: every upstream request is answered, every timer fires, the stream
\* keeps moving chunks to a consumer that keeps reading, and the task runs on.
FairSpec == Init /\ [][Next]_vars /\ WF_vars(Next)

\* Discovery-only runs against a listing longer than PAGE_LIMIT.
InitCap ==
  /\ withFilters = FALSE
  /\ listingPages = PAGE_LIMIT + 1
  /\ InitTask
  /\ ClientIdle
  /\ call = NoCall

NextCap ==
  \/ Start \/ LoopEnter \/ LoopExit \/ IssuePageRequest \/ PageResponseOk
  \/ PageResponseFail \/ TimerFires \/ Found
  \/ Result \/ Catch \/ Finally \/ WriterClosed \/ Drain

SpecCap == InitCap /\ [][NextCap]_vars

\* ---------------------------------------------- functions applied on their own
\* the pipeline stands still while a function is applied to a chosen argument
TaskIdle == withFilters = FALSE /\ listingPages = 0 /\ InitTask /\ ClientIdle

\* warning signals of the declared type: id and details are any strings, the
\* source address is null or any string, the empty one included
AnySignal(id, reason, details, sourceUrl) ==
  [id |-> id, category |-> "structure", reason |-> reason, details |-> details,
   sourceUrl |-> sourceUrl, sourceLabel |-> None]

AnySignals ==
  { AnySignal(id, "first", details, sourceUrl) :
      id \in {<<"a">>, <<"a", ":", "b">>},
      details \in {<<"c">>, <<"b", ":", "c">>},
      sourceUrl \in {None, Some(<<>>), Some(<<"u">>)} }
  \cup { AnySignal(<<"a">>, "second", <<"c">>, None) }

SignalLists == UNION { [1..n -> AnySignals] : n \in 0..MaxSignals }

InitDedupe ==
  /\ TaskIdle
  /\ \E signals \in SignalLists :
       call = [fn |-> "dedupe", arg |-> signals, done |-> FALSE, ret |-> <<>>]

\* the deduplication step of fetchRiskSignals on the list call.arg
ApplyDedupe ==
  /\ call.fn = "dedupe" /\ ~call.done
  /\ call' = [call EXCEPT !.done = TRUE, !.ret = dedupe(call.arg)]
  /\ UNCHANGED <<clientVars, reqVars, pc, discVars, filtVars, netVars, sendVars, endVars>>

SpecDedupe == InitDedupe /\ [][ApplyDedupe]_vars

\* lists of formatted symbols, up to MaxSymbols long: numbered ones, and ones
\* of one and two letters in turn
NumberedSymbols(n) == [k \in 1..n |-> <<"N", "S", "E", ":">> \o digits(k)]
LetterSymbols(n) ==
  [k \in 1..n |-> IF k % 2 = 1 THEN <<"N", "S", "E", ":", "A">>
                  ELSE <<"N", "S", "E", ":", "B", "C">>]

SymbolLists == {NumberedSymbols(n) : n \in 0..MaxSymbols} \cup {LetterSymbols(n) : n \in 0..MaxSymbols}

InitBatches ==
  /\ TaskIdle
  /\ \E list \in SymbolLists :
       call = [fn |-> "splitIntoBatches", arg |-> list, done |-> FALSE, ret |-> <<>>]

\* splitIntoBatches on the list call.arg, with the default batch size
ApplyBatches ==
  /\ call.fn = "splitIntoBatches" /\ ~call.done
  /\ call' = [call EXCEPT !.done = TRUE, !.ret = splitIntoBatches(call.arg, BATCH_SIZE)]
  /\ UNCHANGED <<clientVars, reqVars, pc, discVars, filtVars, netVars, sendVars, endVars>>

\* the runs of the pipeline, and splitIntoBatches applied to lists longer than
\* the pipeline's listing gives
SpecBatches == (Init \/ InitBatches) /\ [][Next \/ ApplyBatches]_vars

\* texts, symbols and display names handed to hasCompanyReference on its own
ReferenceTexts ==
  { <<"a", "b", "c", " ", "f", "r", "a", "u", "d">>, <<"F", "r", "a", "u", "d", " ", "a", "t", " ", "A", "B", "C", ",", " ", "a", "g", "a", "i", "n">>, <<"l", ".", "t", ".", " ", "o", "r", "d", "e", "r">>, <<"l", "t", "d", " ", "o", "r", "d", "e", "r">>,
    <<"a", "c", "m", "e", " ", "l", "t", "d", " ", "o", "r", "d", "e", "r">>, <<"a", " ", "c", " ", "m", " ", "e", " ", "o", "r", "d", "e", "r">>, <<"o", "r", "d", "e", "r">> }

ReferenceSymbols == {<<"B">>, <<"L", "T">>, <<"A", "B", "C">>, <<"X", "Y", "Z">>}

ReferenceNames ==
  {None, Some(<<>>), Some(<<"L", "T">>), Some(<<"A", "b", "c">>), Some(<<"L", ".", "T", ".">>), Some(<<"A", "c", "m", "e">>),
   Some(<<"A", ".", "C", ".", "M", ".", "E">>), Some(<<"Z", "e", "n", "i", "t", "h">>)}

InitReference ==
  /\ TaskIdle
  /\ \E haystack \in ReferenceTexts, symbol \in ReferenceSymbols, name \in ReferenceNames :
       call = [fn |-> "hasCompanyReference",
               arg |-> [haystack |-> haystack, symbol |-> symbol, name |-> name],
               done |-> FALSE, ret |-> <<>>]

\* hasCompanyReference on the text, symbol and name of call.arg
ApplyReference ==
  /\ call.fn = "hasCompanyReference" /\ ~call.done
  /\ call' = [call EXCEPT !.done = TRUE,
                          !.ret = hasCompanyReference(call.arg.haystack, call.arg.symbol,
                                                      call.arg.name)]
  /\ UNCHANGED <<clientVars, reqVars, pc, discVars, filtVars, netVars, sendVars, endVars>>

SpecReference == InitReference /\ [][ApplyReference]_vars

\* series handed to getMarketStructureWarnings on its own: up to three closes
\* at the end of a flat stretch, with or without an older cluster of large
\* moves in front of it
ExtremeTails ==
  UNION {[1..n -> {Some(100), Some(118), Some(125), None}] : n \in 2..3}

ExtremeHeads == {<<>>, <<Some(100), Some(125), Some(100), Some(125)>>}

ExtremeSeries ==
  {head \o flat(n, 100) \o tail :
     head \in ExtremeHeads, n \in {30, 249, 252}, tail \in ExtremeTails}

\* ten closes at a base, a peak, and fourteen closes at the peak but for one
\* low at 0-based index low
PumpPattern(base, peak, trough, low) ==
  flat(10, base) \o <<Some(peak)>>
    \o [k \in 1..14 |-> IF k + 10 = low THEN Some(trough) ELSE Some(peak)]

\* the pattern, whole or without its last close, or followed by closes at the
\* peak that push its start out of the last 260
PumpSeries ==
  {SubSeq(PumpPattern(base, peak, trough, low), 1, len) \o flat(n, peak) :
     base \in {0, 100}, peak \in {179, 180, 190}, trough \in {117, 118, 152},
     low \in {11, 24}, len \in {24, 25}, n \in {0, 240}}

InitStructure ==
  /\ TaskIdle
  /\ \E closeRaw \in ExtremeSeries \union PumpSeries :
       call = [fn |-> "getMarketStructureWarnings",
               arg |-> [closeRaw |-> closeRaw, volumeRaw |-> <<>>],
               done |-> FALSE, ret |-> <<>>]

\* getMarketStructureWarnings as fetchMetrics calls it: closes are the numbers
\* of closeRaw
ApplyStructure ==
  /\ call.fn = "getMarketStructureWarnings" /\ ~call.done
  /\ call' = [call EXCEPT !.done = TRUE,
                          !.ret = getMarketStructureWarnings(numeric(call.arg.closeRaw),
                                                             call.arg.closeRaw,
                                                             call.arg.volumeRaw)]
  /\ UNCHANGED <<clientVars, reqVars, pc, discVars, filtVars, netVars, sendVars, endVars>>

SpecStructure == InitStructure /\ [][ApplyStructure]_vars

\* more feed items: one whose date does not parse, one without an adverse
\* keyword, one about another company
UndatedNews ==
  [title |-> <<"A", "B", "C", " ", "f", "r", "a", "u", "d", " ", "c", "a", "s", "e">>, description |-> <<"A", "c", "m", "e">>, link |-> <<"n", ".", "i", "n", "/", "2">>,
   pubDate |-> <<"s", "o", "o", "n">>, age |-> None]
QuietNews ==
  [title |-> <<"A", "B", "C", " ", "r", "e", "s", "u", "l", "t", "s">>, description |-> <<"A", "c", "m", "e", " ", "g", "r", "o", "w", "s">>, link |-> <<"n", ".", "i", "n", "/", "3">>,
   pubDate |-> <<"T", "h", "u">>, age |-> Some(1)]
OtherNews ==
  [title |-> <<"Z", "e", "n", "i", "t", "h", " ", "f", "r", "a", "u", "d">>, description |-> <<"a", "b", "c", "d">>, link |-> <<"n", ".", "i", "n", "/", "4">>,
   pubDate |-> <<"F", "r", "i">>, age |-> Some(2)]

NewsItems == {UndatedNews, OldNews, QuietNews, OtherNews, NameNews, SymbolNews}

\* the failed feed and every feed of up to MaxItems items
NewsFeeds ==
  {[ok |-> FALSE, items |-> <<>>]}
    \cup {[ok |-> TRUE, items |-> items] :
            items \in UNION {[1..n -> NewsItems] : n \in 0..MaxItems}}

NewsIdentities ==
  {[symbol |-> <<"A", "B", "C">>, name |-> None], [symbol |-> <<"X", "Y", "Z">>, name |-> Some(<<"A", "c", "m", "e">>)]}

InitNews ==
  /\ TaskIdle
  /\ \E resp \in NewsFeeds, who \in NewsIdentities :
       call = [fn |-> "fetchAdverseNewsSignal",
               arg |-> [resp |-> resp, symbol |-> who.symbol, name |-> who.name],
               done |-> FALSE, ret |-> <<>>]

\* fetchAdverseNewsSignal on the feed answer, symbol and name of call.arg
ApplyNews ==
  /\ call.fn = "fetchAdverseNewsSignal" /\ ~call.done
  /\ call' = [call EXCEPT !.done = TRUE,
                          !.ret = adverseNewsSignal(call.arg.resp, call.arg.symbol,
                                                    call.arg.name)]
  /\ UNCHANGED <<clientVars, reqVars, pc, discVars, filtVars, netVars, sendVars, endVars>>

\* the runs of the pipeline, and fetchAdverseNewsSignal applied to more feeds
\* than the pipeline's upstream gives
SpecNews == (Init \/ InitNews) /\ [][Next \/ ApplyNews]_vars

\* the texts a profile page may show as sector or industry: every label of the
\* table, a label outside it, the name of a category, and no text at all
ProfileLabels == ALLOWED_INDUSTRIES \cup {"Software", "Metals", ""}

\* text().trim() || null
orNull(text) == IF text = "" THEN None ELSE Some(text)

InitProfile ==
  /\ TaskIdle
  /\ \E sector \in ProfileLabels, industry \in ProfileLabels :
       call = [fn |-> "fetchSectorFromScreener",
               arg |-> [sector |-> sector, industry |-> industry],
               done |-> FALSE, ret |-> <<>>]

\* the record fetchSectorFromScreener builds from a profile page with the
\* sector and industry texts of call.arg, no name and no signal
ApplyProfile ==
  /\ call.fn = "fetchSectorFromScreener" /\ ~call.done
  /\ call' = [call EXCEPT
                !.done = TRUE,
                !.ret = SectorInfo(<<"A", "B", "C">>,
                                   [name |-> None, sector |-> orNull(call.arg.sector),
                                    industry |-> orNull(call.arg.industry), signals |-> <<>>],
                                   None, <<>>)]
  /\ UNCHANGED <<clientVars, reqVars, pc, discVars, filtVars, netVars, sendVars, endVars>>

SpecProfile == InitProfile /\ [][ApplyProfile]_vars

\* ------------------------------------------------------------------ the client
NL == "\n"

\* the decimal number a text of digits stands for
RECURSIVE toNumber(_)
toNumber(text) ==
  IF text = <<>> THEN 0
  ELSE 10 * toNumber(SubSeq(text, 1, Len(text) - 1))
         + ((CHOOSE d \in 1..10 : DIGITS[d] = text[Len(text)]) - 1)

\* JSON.stringify of a payload, here an object with the one field current
stringify(data) == <<"{", "\"", "c", "u", "r", "r", "e", "n", "t", "\"", ":">> \o digits(data.current) \o <<"}">>

\* JSON.parse of such a text
parse(text) == [current |-> toNumber(SubSeq(text, Len(<<"{", "\"", "c", "u", "r", "r", "e", "n", "t", "\"", ":">>) + 1, Len(text) - 1))]

\* sendEvent: `event: ${event}\ndata: ${JSON.stringify(data)}\n\n`
eventText(e) ==
  <<"e", "v", "e", "n", "t", ":", " ">> \o e.type \o <<NL>> \o <<"d", "a", "t", "a", ":", " ">> \o stringify(e.data) \o <<NL, NL>>

RECURSIVE streamText(_)
streamText(events) ==
  IF events = <<>> THEN <<>> ELSE eventText(Head(events)) \o streamText(Tail(events))

startsWith(line, prefix) ==
  Len(line) >= Len(prefix) /\ SubSeq(line, 1, Len(prefix)) = prefix

\* text.split("\n"): the pieces between line feeds, the last one included
splitLines(text) ==
  LET breaks == {p \in 1..Len(text) : text[p] = NL}
      at(k) == CHOOSE p \in breaks : Cardinality({q \in breaks : q < p}) = k - 1
      n == Cardinality(breaks)
  IN  [k \in 1..(n + 1) |->
         SubSeq(text, IF k = 1 THEN 1 ELSE at(k - 1) + 1,
                      IF k = n + 1 THEN Len(text) ELSE at(k) - 1)]

HandledTypes == {<<"p", "r", "o", "g", "r", "e", "s", "s">>, <<"r", "e", "s", "u", "l", "t">>, <<"e", "r", "r", "o", "r">>}

\* for (const line of lines): an event line sets eventType, a data line is
\* parsed and handed to the setter of the current eventType, if it has one
RECURSIVE handleLines(_, _, _)
handleLines(lines, eventType, seen) ==
  IF lines = <<>> THEN seen
  ELSE LET line == Head(lines)
       IN  IF startsWith(line, <<"e", "v", "e", "n", "t", ":", " ">>)
           THEN handleLines(Tail(lines), SubSeq(line, 8, Len(line)), seen)
           ELSE IF startsWith(line, <<"d", "a", "t", "a", ":", " ">>)
                THEN handleLines(Tail(lines), eventType,
                                 IF eventType \in HandledTypes
                                 THEN Append(seen, [type |-> eventType,
                                                    data |-> parse(SubSeq(line, 7, Len(line)))])
                                 ELSE seen)
                ELSE handleLines(Tail(lines), eventType, seen)

\* the events a response may carry
StreamEvents ==
  {[type |-> type, data |-> [current |-> n]] : type \in HandledTypes, n \in {0, 12}}

EventLists == UNION {[1..n -> StreamEvents] : n \in 1..MaxEvents}

\* handleFetch after fetch returned: the response is the text of the events
\* the server sent, still to be read
InitClient ==
  /\ withFilters = FALSE /\ listingPages = 0 /\ InitTask
  /\ \E events \in EventLists :
       /\ call = [fn |-> "handleFetch", arg |-> events, done |-> FALSE, ret |-> <<>>]
       /\ wire = streamText(events)
  /\ buffer = <<>>
  /\ handled = <<>>

\* one turn of the read loop: reader.read() gives the next chunk, of any
\* length; whole lines are handled with eventType starting empty, the rest
\* stays in buffer
ReadChunk ==
  /\ call.fn = "handleFetch" /\ ~call.done
  /\ wire # <<>>
  /\ \E n \in 1..Len(wire) :
       LET value == SubSeq(wire, 1, n)
           lines == splitLines(buffer \o value)
       IN  /\ wire' = SubSeq(wire, n + 1, Len(wire))
           /\ buffer' = lines[Len(lines)]
           /\ handled' = handleLines(SubSeq(lines, 1, Len(lines) - 1), <<>>, handled)
  /\ UNCHANGED <<callVars, reqVars, pc, discVars, filtVars, netVars, sendVars, endVars>>

\* reader.read() reports the end of the response: break
ReadDone ==
  /\ call.fn = "handleFetch" /\ ~call.done
  /\ wire = <<>>
  /\ call' = [call EXCEPT !.done = TRUE]
  /\ UNCHANGED <<clientVars, reqVars, pc, discVars, filtVars, netVars, sendVars, endVars>>

SpecClient == InitClient /\ [][ReadChunk \/ ReadDone]_vars

\* a year of closes that sets off all five structural rules: a blip in the
\* baseline months, then a doubling, a halving and another swing at the end
StormCloses ==
  flat(60, 100) \o <<Some(125)>> \o flat(111, 100)
    \o flat(5, 200) \o <<Some(100), Some(200)>> \o flat(9, 100)

\* volumes of 10 with 100 on the days of the doubling and the halving
StormVolumes ==
  [k \in 1..Len(StormCloses) |-> IF k \in {173, 178} THEN Some(100) ELSE Some(10)]

RiskCharts ==
  { [closeRaw |-> flat(60, 100), volumeRaw |-> <<>>],
    [closeRaw |-> StormCloses, volumeRaw |-> <<>>],
    [closeRaw |-> StormCloses, volumeRaw |-> StormVolumes],
    [closeRaw |-> PumpPattern(100, 190, 114, 24), volumeRaw |-> <<>>] }

\* fetchRiskSignals with the structural signals of a chart and the answers of
\* the two textual checks: the list handed to the deduplication, and what
\* comes out of it
fetchRiskSignals(chart, news, search, symbol, name) ==
  LET signals ==
        getMarketStructureWarnings(numeric(chart.closeRaw), chart.closeRaw, chart.volumeRaw)
          \o adverseNewsSignal(news, symbol, name)
          \o sebiAdjudicationSignal(fetchDuckDuckGoResults(search), symbol, name)
  IN  [signals |-> signals,
       warningSignals |->
         SectorInfo(symbol, [NoRecord EXCEPT !.name = name], None, signals).warningSignals]

InitRisk ==
  /\ TaskIdle
  /\ \E chart \in RiskCharts, news \in NewsResponses, search \in SearchResponses,
        name \in ScrapedNames :
       call = [fn |-> "fetchRiskSignals",
               arg |-> [chart |-> chart, news |-> news, search |-> search,
                        symbol |-> <<"A", "B", "C">>, name |-> name],
               done |-> FALSE, ret |-> <<>>]

\* fetchRiskSignals on the chart and answers of call.arg, before the task moves
ApplyRisk ==
  /\ call.fn = "fetchRiskSignals" /\ ~call.done
  /\ pc = "start"
  /\ call' = [call EXCEPT !.done = TRUE,
                          !.ret = fetchRiskSignals(call.arg.chart, call.arg.news,
                                                   call.arg.search, call.arg.symbol,
                                                   call.arg.name)]
  /\ UNCHANGED <<clientVars, reqVars, pc, discVars, filtVars, netVars, sendVars, endVars>>

\* the runs of the pipeline, and fetchRiskSignals applied to charts that set
\* off more rules than the pipeline's price answers do
SpecRisk == (Init \/ InitRisk) /\ [][Next \/ ApplyRisk]_vars

\* ------------------------------------------------------------------- claims
Last(seq) == seq[Len(seq)]

IsPrefix(a, b) == Len(a) <= Len(b) /\ \A k \in 1..Len(a) : a[k] = b[k]

CountType(seq, t) == Cardinality({k \in 1..Len(seq) : seq[k].type = t})

IsProgress(e, stage) == e.type = "progress" /\ e.stage = stage

\* the report of one symbol of the technical-filter loop
IsSymbolReport(e) == e.type = "progress" /\ e.msg \in {"passed", "failed", "skipped"}

\* the symbol-count event is sent exactly when the discovery loop ended normally
DiscoverySucceeded ==
  \E k \in 1..Len(sent) : sent[k].type = "progress" /\ sent[k].msg = "found"

\* fetchPageHtml threw: its last step is a failure that was not retried
DiscoveryFailed == pageTrace # <<>> /\ Last(pageTrace).op = "failed"

\* C1: in a run whose discovery succeeded, events reach the stream in the order
\* sendEvent was called for them (awaited or not), and once the writer is closed
\* every event sent has been written, exactly one of them is a result event, and
\* it is the last one.
C1_ResultLastInOrder ==
  /\ IsPrefix(out, sent)
  /\ sent = out \o pending
  /\ \A k, m \in 1..Len(out) :
       (k < m /\ IsSymbolReport(out[k]) /\ IsSymbolReport(out[m]))
         => out[k].current < out[m].current
  /\ (DiscoverySucceeded /\ closed) =>
       /\ out = sent
       /\ CountType(out, "result") = 1
       /\ Last(out).type = "result"
       /\ \A k \in 1..(Len(out) - 1) : out[k].type = "progress"

\* C1 witness: a closed stream ending in the result, with events of the
\* un-awaited onProgress callback (a passed and a skipped symbol) before it.
C1_Witness ==
  /\ closed
  /\ Last(out).type = "result"
  /\ \E k \in 1..Len(out) : out[k].type = "progress" /\ out[k].msg = "passed"
  /\ \E k \in 1..Len(out) : out[k].type = "progress" /\ out[k].msg = "skipped"
  /\ \E k \in 1..Len(out) : out[k].type = "progress" /\ out[k].msg = "sector"

\* C2: once a listing page fetch has failed for good, no result event, no
\* filter-stage or complete-stage progress event and no symbol is ever sent, and
\* the closed stream holds everything sent, ending in its only error event.
C2_DiscoveryFailureIsFatal ==
  DiscoveryFailed =>
    /\ pc \in {"catch", "finally", "closing", "done"}
    /\ \A k \in 1..Len(sent) :
         \/ sent[k].type = "error"
         \/ /\ IsProgress(sent[k], "screener")
            /\ sent[k].msg \in {"start", "page"}
            /\ sent[k].sym = <<>> /\ sent[k].n = 0
    /\ closed =>
         /\ out = sent
         /\ CountType(out, "error") = 1
         /\ Last(out).type = "error"

\* C2 witness: a closed error stream after a failure on a later page, with
\* symbols already collected from the pages before it.
C2_Witness ==
  /\ DiscoveryFailed /\ closed
  /\ Len(fetched) >= 1 /\ Len(symbols) >= 1
  /\ Last(out).type = "error"

Terminated ==
  /\ closed
  /\ pending = <<>>
  /\ out # <<>>
  /\ Last(out).type \in {"result", "error"}
  /\ CountType(out, "result") + CountType(out, "error") = 1

\* C3: every fair run reaches a closed writer whose stream ends in exactly one
\* terminal event (result or error, not both), and stays there; nothing is
\* written once the writer is closed.
C3_TerminatesWithOneTerminalEvent ==
  /\ <>[]Terminated
  /\ [][closed => (out' = out /\ closed')]_vars

\* C3 witness: a terminated run of the full pipeline.
C3_Witness == Terminated /\ withFilters /\ Len(sectorResults) >= 1

\* C4: once discovery has succeeded with filters requested, no failure of a
\* price, profile, news or search request and no unusable price data leads to
\* the error path: no error event is sent and the closed stream ends in the
\* result event.
C4_PerSymbolFailuresNeverEscalate ==
  (DiscoverySucceeded /\ withFilters) =>
    /\ pc # "catch"
    /\ CountType(sent, "error") = 0
    /\ closed => (out = sent /\ Last(out).type = "result")

\* C4 witness: a run in which one symbol's metrics could not be had and
\* another's profile, news and search requests all failed, ending in the result.
C4_Witness ==
  /\ closed /\ withFilters
  /\ {"profile", "news", "search"} \subseteq failures
  /\ failures \cap {"price", "metrics"} # {}
  /\ Last(out).type = "result"

Requests(trace) == {k \in 1..Len(trace) : trace[k].op = "request"}
Failures(trace) == {k \in 1..Len(trace) : trace[k].op = "failed"}
RateLimitedBefore(trace, k) ==
  Cardinality({m \in 1..k : trace[m].op = "failed" /\ trace[m].arg = HTTP_RATE_LIMITED})

\* C5: one fetchPageHtml call issues at most RETRIES_PER_PAGE requests; the k-th
\* rate-limited answer with k < RETRIES_PER_PAGE is followed by a wait of
\* FETCH_DELAY_MS * k and only then by the next request; the answer number
\* RETRIES_PER_PAGE, rate-limited too, is followed by nothing: the call throws
\* and the run takes the error path.
C5_RateLimitBackoff ==
  /\ Cardinality(Requests(pageTrace)) <= RETRIES_PER_PAGE
  /\ \A k \in Failures(pageTrace) :
       pageTrace[k].arg = HTTP_RATE_LIMITED =>
         LET n == RateLimitedBefore(pageTrace, k)
         IN  IF n < RETRIES_PER_PAGE
             THEN /\ Len(pageTrace) > k
                  /\ pageTrace[k + 1] = [op |-> "wait", arg |-> FETCH_DELAY_MS * n]
                  /\ Len(pageTrace) > k + 1 => pageTrace[k + 2].op = "request"
                  /\ (Len(pageTrace) = k + 1) =>
                       (pc \in {"backoff", "fetch_page"} /\ inflight = {}
                          /\ (pc = "backoff" <=> timer = FETCH_DELAY_MS * n))
             ELSE /\ Len(pageTrace) = k
                  /\ pc \in {"catch", "finally", "closing", "done"}
                  /\ timer = 0 /\ inflight = {}
                  /\ CountType(sent, "result") = 0
  /\ \A k \in Requests(pageTrace) :
       k > 1 => (pageTrace[k - 1].op = "wait" /\ pageTrace[k - 2].arg = HTTP_RATE_LIMITED)

\* C5 witness: three rate-limited answers for one page, waits of 800 and 1600
\* between the requests, and the run on its error path.
C5_Witness ==
  /\ Cardinality(Requests(pageTrace)) = RETRIES_PER_PAGE
  /\ RateLimitedBefore(pageTrace, Len(pageTrace)) = RETRIES_PER_PAGE
  /\ \E k \in 1..Len(pageTrace) : pageTrace[k] = [op |-> "wait", arg |-> 1600]
  /\ closed /\ Last(out).type = "error"

\* C6: a failed page request that is not a 429 answer ends the fetchPageHtml
\* call at whichever attempt it occurs: no request and no wait follows it, and
\* the run takes the error path.
C6_OtherFailuresNotRetried ==
  \A k \in Failures(pageTrace) :
    pageTrace[k].arg # HTTP_RATE_LIMITED =>
      /\ Len(pageTrace) = k
      /\ timer = 0 /\ inflight = {}
      /\ pc \in {"catch", "finally", "closing", "done"}
      /\ CountType(sent, "result") = 0

\* C6 witness: a server error at the second attempt, after one 429 answer.
C6_Witness ==
  /\ Len(pageTrace) = 5
  /\ pageTrace[2] = [op |-> "failed", arg |-> HTTP_RATE_LIMITED]
  /\ pageTrace[5] = [op |-> "failed", arg |-> 500]
  /\ pc = "catch"

JustFetched == pc \in {"page_sleep", "loop"} /\ fetched # <<>>

\* C7 (as claimed): after a page is fetched the loop goes on exactly when the
\* page linked a next page and yielded a symbol not yet in the running set.
C7_AdvanceOnlyOnNewSymbol ==
  JustFetched => (hasNext <=> (lastPage.hasNext /\ lastPage.fresh > 0))

\* C7 (amended): after a page is fetched the loop goes on exactly when the page
\* linked a next page and yielded at least one symbol, new or not; a page that
\* links a next page but yields no symbol ends discovery.
C7_AdvanceOnAnySymbol ==
  JustFetched =>
    /\ hasNext <=> (lastPage.hasNext /\ lastPage.count > 0)
    /\ (pc = "page_sleep") => (hasNext /\ timer = FETCH_DELAY_MS)

\* C7 witness: the loop goes on after a page whose symbols were all known.
C7_Witness ==
  /\ pc = "page_sleep" /\ hasNext
  /\ lastPage.hasNext /\ lastPage.count > 0 /\ lastPage.fresh = 0

\* C8: the pages fetched are 1, 2, ..., k in this order, every request in
\* flight or made by the current fetchPageHtml call is for page k + 1, k never
\* exceeds PAGE_LIMIT, and a run that fetched PAGE_LIMIT pages ends with the
\* result event, not an error.
C8_PagesInOrderUpToLimit ==
  /\ fetched = [k \in 1..Len(fetched) |-> k]
  /\ Len(fetched) <= PAGE_LIMIT
  /\ page = Len(fetched) + 1
  /\ \A r \in inflight : r.kind = "page" /\ r.key = <<Len(fetched) + 1>>
  /\ \A k \in Requests(pageTrace) : pageTrace[k].arg = Len(fetched) + 1
  /\ Len(fetched) = PAGE_LIMIT =>
       /\ pc \notin {"fetch_page", "page_wait", "backoff", "catch"}
       /\ CountType(sent, "error") = 0
       /\ closed => Last(out).type = "result"

\* C8 witness: PAGE_LIMIT pages fetched, the last one still linking a next
\* page, and the stream closed after the result event.
C8_Witness ==
  /\ Len(fetched) = PAGE_LIMIT /\ hasNext
  /\ closed /\ Last(out).type = "result"

\* C9: at most one upstream request or wait is outstanding at any moment.
C9_OneRequestAtATime ==
  Cardinality(inflight) + (IF timer # 0 THEN 1 ELSE 0) <= 1

\* C9 witness: the search request of the second passing symbol is in flight,
\* alone.
C9_Witness ==
  /\ pc = "search_wait" /\ j = 2
  /\ inflight = {SearchRequest(filtered[j])}

\* C10 (as claimed): in the technical filter every price request but the
\* first comes right after a wait of FILTER_DELAY_MS.
C10_DelayAfterEverySymbol ==
  \A k \in 2..Len(filterTrace) :
    filterTrace[k].op = "price" =>
      (filterTrace[k - 1].op = "wait" /\ filterTrace[k - 1].ms = FILTER_DELAY_MS)

\* the events of one stage, in the order they were sent
StageEvents(seq, stage) == SelectSeq(seq, LAMBDA e : IsProgress(e, stage))

ResultsSent == {k \in 1..Len(sent) : sent[k].type = "result"}

\* the text of a symbol list as the result event carries it
Listed(list) == join([k \in 1..Len(list) |-> <<"N", "S", "E", ":">> \o list[k]], <<",">>)

\* C11: in a run without the filters option every request is a listing-page
\* request (no price, profile, news or search request is ever issued), no
\* progress event of stage filter or complete is sent, and the result event
\* carries the discovered symbols with filtered and sectorFiltered absent.
C11_NoFiltersDiscoveryOnly ==
  ~withFilters =>
    /\ \A r \in inflight : r.kind = "page"
    /\ filterTrace = <<>>
    /\ StageEvents(sent, "filter") = <<>>
    /\ StageEvents(sent, "complete") = <<>>
    /\ \A k \in ResultsSent :
         /\ sent[k].filtered = None
         /\ sent[k].sectorFiltered = None
         /\ sent[k].total = Len(symbols)
         /\ join(sent[k].batches, <<",">>) = Listed(symbols)

\* C11 witness: a discovery-only run that found two symbols and closed the
\* stream after the result.
C11_Witness ==
  /\ ~withFilters /\ closed
  /\ Len(symbols) = 2
  /\ Last(out).type = "result"

\* C12 (as claimed): once discovery has succeeded after k pages, k + 1 progress
\* events of stage screener have been sent.
C12_ScreenerEventsPerPagePlusOne ==
  DiscoverySucceeded => Len(StageEvents(sent, "screener")) = Len(fetched) + 1

\* C12 (amended): once discovery has succeeded after k pages, the progress
\* events of stage screener are k + 2: the opening event, one announcement per
\* page fetched, for pages 1..k in order and whatever the retries, and the
\* symbol-count event; no screener event follows the symbol-count event.
C12_ScreenerEventsPerPagePlusTwo ==
  LET ev == StageEvents(sent, "screener")
      k == Len(fetched)
  IN  DiscoverySucceeded =>
        /\ Len(ev) = k + 2
        /\ ev[1].msg = "start"
        /\ \A p \in 1..k : ev[p + 1].msg = "page" /\ ev[p + 1].current = p
        /\ ev[k + 2].msg = "found" /\ ev[k + 2].n = Len(symbols)

\* C12 witness: a finished run whose discovery fetched two pages.
C12_Witness ==
  /\ DiscoverySucceeded /\ closed
  /\ Len(fetched) = 2
  /\ Len(StageEvents(out, "screener")) = 4

LowerCase == {LOWER[k] : k \in 1..Len(LOWER)}

\* non-empty, no blank at either end, no lower-case letter
IsNormalized(s) ==
  /\ s # <<>>
  /\ s[1] # " " /\ s[Len(s)] # " "
  /\ \A k \in 1..Len(s) : s[k] \notin LowerCase

NoDuplicates(seq) == \A k, m \in 1..Len(seq) : k # m => seq[k] # seq[m]

PriceRequestsOf(trace) ==
  LET picked == SelectSeq(trace, LAMBDA t : t.op = "price")
  IN  [k \in 1..Len(picked) |-> picked[k].sym]

\* C13: every member of the running symbol set is non-empty and in trimmed
\* upper-case form, and no member occurs twice, whatever rows and pages named
\* it; the price requests of the technical filter go through that same list in
\* order, and the result event reports exactly that list.
C13_SymbolsNormalizedAndUnique ==
  /\ \A k \in 1..Len(symbols) : IsNormalized(symbols[k])
  /\ NoDuplicates(symbols)
  /\ IsPrefix(PriceRequestsOf(filterTrace), symbols)
  /\ \A k \in 1..Len(filtered) : \E m \in 1..Len(symbols) : filtered[k] = symbols[m]
  /\ NoDuplicates(filtered)
  /\ \A k \in ResultsSent :
       /\ sent[k].total = Len(symbols)
       /\ join(sent[k].batches, <<",">>) = Listed(symbols)

\* C13 witness: the second page names, through a lower-case link and through
\* an upper-case cell, the symbol the first page already gave; it is held once.
C13_Witness ==
  /\ pc = "page_sleep" /\ Len(fetched) = 2
  /\ lastPage.rows = <<CompanyLinkRow, OtherLinkRow>>
  /\ lastPage.count = 1 /\ lastPage.fresh = 0
  /\ symbols = << <<"A", "B", "C">> >>

\* the price answer just handled carried a close series
HasSeries == lastPrice.sym # <<>> /\ lastPrice.resp.ok /\ lastPrice.resp.close # None

\* its numeric closes, oldest first
NumericCloses == numeric(lastPrice.resp.close[1])

InList(list, v) == \E k \in 1..Len(list) : list[k] = v

\* the last close is above the mean of the trailing w closes, w the smaller of
\* SMA_WINDOW and the length, and is at least ATH_THRESHOLD times every close
AboveMeanAndNearHigh(closes) ==
  LET n == Len(closes)
      w == IF n < SMA_WINDOW THEN n ELSE SMA_WINDOW
  IN  /\ closes[n] * w > sum([k \in 1..w |-> closes[n - w + k]])
      /\ \A k \in 1..n : closes[n] * ATH_THRESHOLD_DEN >= closes[k] * ATH_THRESHOLD_NUM

\* C14: when the price answer holds at least MIN_HISTORY numeric closes, the
\* symbol is reported as passed and appended to the filtered list if and only
\* if its last close is strictly above the mean of the trailing at most
\* SMA_WINDOW closes and at least ATH_THRESHOLD times the highest close of the
\* whole series; otherwise it is reported as failed and stays out of the list.
C14_PassesIffAboveMeanAndNearHigh ==
  (HasSeries /\ Len(NumericCloses) >= MIN_HISTORY) =>
    /\ InList(filtered, lastPrice.sym) <=> AboveMeanAndNearHigh(NumericCloses)
    /\ Last(sent).sym = lastPrice.sym
    /\ Last(sent).msg = IF AboveMeanAndNearHigh(NumericCloses) THEN "passed" ELSE "failed"
    /\ InList(filtered, lastPrice.sym) => Last(filtered) = lastPrice.sym

\* C14 witness: a series of 300 closes whose early closes are high: the last
\* close is below the mean of the whole series and above the mean of the last
\* SMA_WINDOW closes, and the symbol is in the filtered list.
C14_Witness ==
  /\ HasSeries
  /\ Len(NumericCloses) = 300
  /\ NumericCloses[300] * 300 < sum(NumericCloses)
  /\ InList(filtered, lastPrice.sym)
  /\ Last(sent).msg = "passed"

\* C15: a price answer without close series makes fetchMetrics fail with No
\* price data, one whose series holds no numeric close with Empty prices, one
\* with fewer than MIN_HISTORY numeric closes with Insufficient history, each
\* only when the earlier check found nothing, and a series with MIN_HISTORY or
\* more numeric closes does not fail; a symbol whose fetchMetrics failed is
\* reported as skipped and is not in the filtered list.
C15_MetricsFailuresInOrder ==
  (lastPrice.sym # <<>> /\ lastPrice.resp.ok) =>
    /\ lastPrice.error = "No price data" <=> lastPrice.resp.close = None
    /\ lastPrice.error = "Empty prices" <=>
         (lastPrice.resp.close # None /\ Len(NumericCloses) = 0)
    /\ lastPrice.error = "Insufficient history" <=>
         (lastPrice.resp.close # None /\ Len(NumericCloses) \in 1..(MIN_HISTORY - 1))
    /\ lastPrice.error = "" <=>
         (lastPrice.resp.close # None /\ Len(NumericCloses) >= MIN_HISTORY)
    /\ lastPrice.error # "" =>
         /\ Last(sent).sym = lastPrice.sym /\ Last(sent).msg = "skipped"
         /\ ~InList(filtered, lastPrice.sym)

\* C15 witness: a series of 51 entries of which 49 are numeric: the symbol was
\* skipped for lack of history.
C15_Witness ==
  /\ HasSeries
  /\ Len(lastPrice.resp.close[1]) > MIN_HISTORY
  /\ Len(NumericCloses) = MIN_HISTORY - 1
  /\ lastPrice.error = "Insufficient history"
  /\ Last(sent).msg = "skipped"

\* what the claim takes as the identity of a signal
Triple(signal) == <<signal.id, signal.details, signal.sourceUrl>>

\* the positions of a list that hold a triple no earlier position holds
FirstOccurrences(list) ==
  SelectSeq([k \in 1..Len(list) |-> k],
            LAMBDA k : \A m \in 1..(k - 1) : Triple(list[m]) # Triple(list[k]))

RecordsOfRun ==
  {sectorResults[k] : k \in 1..Len(sectorResults)}
    \cup UNION { {sent[k].filtered[1].stocks[m] : m \in 1..Len(sent[k].filtered[1].stocks)}
                 : k \in {r \in ResultsSent : sent[r].filtered # None} }
    \cup UNION { {sent[k].sectorFiltered[1].stocks[m]
                    : m \in 1..Len(sent[k].sectorFiltered[1].stocks)}
                 : k \in {r \in ResultsSent : sent[r].sectorFiltered # None} }

\* C17: in every SectorInfo record of a run hasRiskWarning is true if and only
\* if warningSignals is non-empty, warningReasons is as long as warningSignals,
\* and warningReasons[i] is the reason of warningSignals[i] for every i.
C17_FlagAndReasonsFollowSignals ==
  \A info \in RecordsOfRun :
    /\ info.hasRiskWarning <=> info.warningSignals # <<>>
    /\ Len(info.warningReasons) = Len(info.warningSignals)
    /\ \A k \in 1..Len(info.warningSignals) :
         info.warningReasons[k] = info.warningSignals[k].reason

\* C17 witness: a result event whose first record has no signal and is not
\* flagged, and whose second record is flagged with a structural, a news and a
\* regulatory signal.
C17_Witness ==
  \E k \in ResultsSent :
    /\ sent[k].filtered # None
    /\ Len(sent[k].filtered[1].stocks) = 2
    /\ sent[k].filtered[1].stocks[1].warningSignals = <<>>
    /\ ~sent[k].filtered[1].stocks[1].hasRiskWarning
    /\ sent[k].filtered[1].stocks[2].hasRiskWarning
    /\ Len(sent[k].filtered[1].stocks[2].warningSignals) = 3
    /\ [m \in 1..3 |-> sent[k].filtered[1].stocks[2].warningSignals[m].category]
         = <<"structure", "news", "regulatory">>
    /\ Len(sent[k].filtered[1].stocks[2].warningReasons) = 3

\* the industry of a record is present and on the allow-list
IndustryAllowed(info) == info.industry # None /\ info.industry[1] \in ALLOWED_INDUSTRIES

\* C18: the sectorFiltered list of the result event is the subsequence of
\* allSectorInfo, in order and with the records unchanged, of the records
\* whose industry is present and in ALLOWED_INDUSTRIES; a record without
\* industry is left out whatever its sector and category are.
C18_SectorFilteredIsAllowedSubsequence ==
  \A k \in ResultsSent :
    sent[k].sectorFiltered # None =>
      /\ sent[k].filtered # None
      /\ sent[k].sectorFiltered[1].stocks
           = SelectSeq(sent[k].filtered[1].stocks, IndustryAllowed)
      /\ sent[k].sectorFiltered[1].total = Len(sent[k].sectorFiltered[1].stocks)
      /\ sent[k].filtered[1].stocks = sectorResults

\* C18 witness: of two records the first has no industry, a sector and a
\* category, the second an allowed industry; only the second is kept.
C18_Witness ==
  \E k \in ResultsSent :
    /\ sent[k].sectorFiltered # None
    /\ Len(sent[k].filtered[1].stocks) = 2
    /\ sent[k].filtered[1].stocks[1].industry = None
    /\ sent[k].filtered[1].stocks[1].sector # None
    /\ sent[k].filtered[1].stocks[1].category # None
    /\ sent[k].sectorFiltered[1].stocks = <<sent[k].filtered[1].stocks[2]>>

\* batches cuts list, in order, into comma-joined chunks of BATCH_SIZE
\* entries, the last one possibly shorter, and into none when list is empty
IsBatching(list, batches) ==
  LET n == Len(list)
      chunks == (n + BATCH_SIZE - 1) \div BATCH_SIZE
      from(b) == BATCH_SIZE * (b - 1) + 1
      to(b) == IF BATCH_SIZE * b < n THEN BATCH_SIZE * b ELSE n
  IN  /\ Len(batches) = chunks
      /\ \A b \in 1..chunks :
           /\ to(b) - from(b) + 1 = (IF b < chunks THEN BATCH_SIZE ELSE n - BATCH_SIZE * (chunks - 1))
           /\ batches[b] = join([k \in 1..(to(b) - from(b) + 1) |-> list[from(b) + k - 1]], <<",">>)
      /\ join(batches, <<",">>) = join(list, <<",">>)

\* C19: splitIntoBatches cuts any list in order into comma-joined chunks of
\* BATCH_SIZE symbols, the last one possibly shorter, none for the empty list,
\* so that the batches joined by commas give the whole list; and in the result
\* event total is the number of discovered symbols and the batches of the
\* discovered, the filtered and the sector-filtered symbols are such cuts of
\* those lists with their NSE: prefix.
C19_BatchesCutTheListInOrder ==
  /\ (call.fn = "splitIntoBatches" /\ call.done) => IsBatching(call.arg, call.ret)
  /\ \A k \in ResultsSent :
       /\ sent[k].total = Len(symbols)
       /\ NoDuplicates(symbols)
       /\ IsBatching(formatted(symbols), sent[k].batches)
       /\ sent[k].filtered # None =>
            /\ sent[k].filtered[1].total = Len(filtered)
            /\ IsBatching(formatted(filtered), sent[k].filtered[1].batches)
       /\ sent[k].sectorFiltered # None =>
            IsBatching(formatted(symbolsOf(sent[k].sectorFiltered[1].stocks)),
                       sent[k].sectorFiltered[1].batches)

\* C19 witness: a list of 61 symbols came back as two chunks of 30 and one of
\* one symbol.
C19_Witness ==
  /\ call.fn = "splitIntoBatches" /\ call.done
  /\ Len(call.arg) = 2 * BATCH_SIZE + 1
  /\ Len(call.ret) = 3
  /\ call.ret[3] = call.arg[2 * BATCH_SIZE + 1]
  /\ call.ret[3] = <<"N", "S", "E", ":", "6", "1">>

\* the record just pushed was built after the profile request failed
ProfileFailed ==
  /\ lastRisk.sym # <<>> /\ lastRisk.search # None
  /\ ~lastRisk.profile[1].ok

\* the maximal runs of letters and digits of a text, in lower case
AlnumRuns(text) ==
  LET t == SubSeq(lower(text), 1, Len(text))
      n == Len(t)
      starts == {a \in 1..n : IsAlnum(t[a]) /\ (a = 1 \/ ~IsAlnum(t[a - 1]))}
      ends == {b \in 1..n : IsAlnum(t[b]) /\ (b = n \/ ~IsAlnum(t[b + 1]))}
      endOf(a) == CHOOSE b \in ends : b >= a /\ \A c \in ends : c >= a => b <= c
  IN  {SubSeq(t, a, endOf(a)) : a \in starts}

\* a news signal made from a feed item that names the symbol as a word
NewsNamesSymbol(signal, items, sym) ==
  \E m \in 1..Len(items) :
    /\ lower(sym) \in AlnumRuns(items[m].title \o <<" ">> \o items[m].description)
    /\ signal.details = trim(items[m].title) \o <<" ", "(">> \o trim(items[m].pubDate) \o <<")">>

\* a regulatory signal made from a search result that names the symbol as a word
SearchNamesSymbol(signal, results, sym) ==
  \E m \in 1..Len(results) :
    /\ lower(sym) \in AlnumRuns(results[m].title \o <<" ">> \o results[m].snippet
                                  \o <<" ">> \o results[m].url)
    /\ signal.details = IF trim(results[m].title) = <<>> THEN sym ELSE trim(results[m].title)

\* C20: when the profile request of a passing symbol fails, a record for the
\* symbol is still pushed; its sector, industry, category and name are null,
\* it keeps the dailyChangePct and, first and in order, every structural
\* signal of the technical filter, and each textual signal it holds comes from
\* an item that names the symbol, of length 3 or more, as a bounded word.
C20_ProfileFailureKeepsFilterData ==
  ProfileFailed =>
    LET rec == Last(sectorResults)
        sym == lastRisk.sym
        structural == mapGet(structureWarningsBySymbol, sym, <<>>)
        textual == SelectSeq(rec.warningSignals, LAMBDA w : w.category # "structure")
    IN  /\ Len(sectorResults) = j /\ rec.symbol = sym /\ filtered[j] = sym
        /\ rec.sector = None /\ rec.industry = None
        /\ rec.category = None /\ rec.name = None
        /\ rec.dailyChangePct = mapGet(dailyChangeBySymbol, sym, None)
        /\ rec.warningSignals = structural \o textual
        /\ \A k \in 1..Len(textual) :
             /\ Len(sym) >= 3
             /\ textual[k].category = "news" =>
                  NewsNamesSymbol(textual[k], lastRisk.news[1].items, sym)
             /\ textual[k].category = "regulatory" =>
                  SearchNamesSymbol(textual[k], lastRisk.search[1].results, sym)

\* C20 witness: the profile request for ABC failed; the record keeps the daily
\* change and the structural signal and holds a news and a regulatory signal,
\* the news one from the item naming ABC, which comes after one naming only
\* the company.
C20_Witness ==
  /\ ProfileFailed
  /\ lastRisk.sym = <<"A", "B", "C">>
  /\ Last(sectorResults).dailyChangePct # None
  /\ Len(Last(sectorResults).warningSignals) = 3
  /\ Last(sectorResults).warningSignals[1].category = "structure"
  /\ Last(sectorResults).warningSignals[2].details
       = trim(SymbolNews.title) \o <<" ", "(">> \o SymbolNews.pubDate \o <<")">>
  /\ Last(sectorResults).warningSignals[3].category = "regulatory"

\* a second case: the profile request for B failed and both answers name B as
\* a word; the record holds no textual signal.
C20_ShortSymbolCase ==
  /\ ProfileFailed
  /\ lastRisk.sym = <<"B">>
  /\ lastRisk.news[1].ok /\ lastRisk.search[1].ok
  /\ Last(sectorResults).warningSignals = mapGet(structureWarningsBySymbol, <<"B">>, <<>>)

\* the letters and digits of a name, in lower case
AlnumOf(name) == SelectSeq(SubSeq(lower(name), 1, Len(name)), IsAlnum)

\* C21 (as claimed): hasCompanyReference succeeds only through a symbol of 3
\* or more characters that stands in the text as a bounded word, or through a
\* display name with at least 4 letters and digits; a shorter name makes
\* neither the literal nor the compacted substring check succeed.
C21_NameNeedsFourAlnum ==
  (call.fn = "hasCompanyReference" /\ call.done /\ call.ret) =>
    \/ /\ Len(call.arg.symbol) >= 3
       /\ lower(call.arg.symbol) \in AlnumRuns(call.arg.haystack)
    \/ /\ call.arg.name # None
       /\ Len(AlnumOf(call.arg.name[1])) >= 4

\* the ids of a list of signals
IdsOf(signals) == {signals[k].id : k \in 1..Len(signals)}

\* the indices of a raw series that give a daily return: a number preceded by
\* a number other than 0
ReturnDays(closeRaw) ==
  {k \in 2..Len(closeRaw) :
     closeRaw[k] # None /\ closeRaw[k - 1] # None /\ closeRaw[k - 1][1] # 0}

\* the last n of a set of indices
LatestOf(days, n) == {k \in days : Cardinality({d \in days : d > k}) < n}

\* the days among the last 252 return days whose move is 18% or more of the
\* previous close, up or down
ExtremeDays(closeRaw) ==
  {k \in LatestOf(ReturnDays(closeRaw), 252) :
     100 * abs(closeRaw[k][1] - closeRaw[k - 1][1]) >= 18 * abs(closeRaw[k - 1][1])}

StructureDone == call.fn = "getMarketStructureWarnings" /\ call.done

\* C22: structure-extreme-moves is emitted exactly when at least 3 of the last
\* 252 daily returns are 18% or more in absolute value; two such sessions
\* among flat ones do not emit it.
C22_ExtremeMovesIffThreeSessions ==
  StructureDone =>
    ((<<"s", "t", "r", "u", "c", "t", "u", "r", "e", "-", "e", "x", "t", "r", "e", "m", "e", "-", "m", "o", "v", "e", "s">> \in IdsOf(call.ret))
       <=> Cardinality(ExtremeDays(call.arg.closeRaw)) >= 3)

\* the signal is emitted for exactly three sessions, one of them of exactly
\* 18%, while an older cluster lies outside the last 252 returns
C22_Witness ==
  /\ StructureDone
  /\ <<"s", "t", "r", "u", "c", "t", "u", "r", "e", "-", "e", "x", "t", "r", "e", "m", "e", "-", "m", "o", "v", "e", "s">> \in IdsOf(call.ret)
  /\ Cardinality(ExtremeDays(call.arg.closeRaw)) = 3
  /\ Len(call.arg.closeRaw) > 253
  /\ \E k \in ExtremeDays(call.arg.closeRaw) :
       call.arg.closeRaw[k][1] = 118 /\ call.arg.closeRaw[k - 1][1] = 100

\* two sessions among flat ones: not emitted
C22_TwoSessionsCase ==
    /\ StructureDone
    /\ Cardinality(ExtremeDays(call.arg.closeRaw)) = 2
    /\ ~(<<"s", "t", "r", "u", "c", "t", "u", "r", "e", "-", "e", "x", "t", "r", "e", "m", "e", "-", "m", "o", "v", "e", "s">> \in IdsOf(call.ret))

\* the last 260 numeric closes of a raw series
YearOfCloses(closeRaw) == lastN(numeric(closeRaw), 260)

\* a start (1-based) with its 24th following close inside the window, positive
\* start and peak, a rise of 80% or more over 10 closes and a fall of 35% or
\* more from the peak to some close among the next 14
IsPumpDumpStart(w, s) ==
  /\ s + 24 <= Len(w)
  /\ w[s] > 0 /\ w[s + 10] > 0
  /\ 100 * (w[s + 10] - w[s]) >= 80 * w[s]
  /\ \E k \in (s + 11)..(s + 24) : 100 * (w[s + 10] - w[k]) >= 35 * w[s + 10]

HasPumpDump(closeRaw) ==
  \E s \in 1..Len(YearOfCloses(closeRaw)) : IsPumpDumpStart(YearOfCloses(closeRaw), s)

\* C23: structure-pump-dump is emitted exactly when the last 260 closes hold a
\* start with a rise of 80% or more over 10 closes followed by a fall of 35%
\* or more within the next 14, and it is emitted at most once per series.
C23_PumpDumpIffRiseThenFall ==
  StructureDone =>
    /\ (<<"s", "t", "r", "u", "c", "t", "u", "r", "e", "-", "p", "u", "m", "p", "-", "d", "u", "m", "p">> \in IdsOf(call.ret)) <=> HasPumpDump(call.arg.closeRaw)
    /\ Cardinality({k \in 1..Len(call.ret) : call.ret[k].id = <<"s", "t", "r", "u", "c", "t", "u", "r", "e", "-", "p", "u", "m", "p", "-", "d", "u", "m", "p">>}) <= 1

\* emitted for a rise of exactly 80% whose only fall of 35% is at the last
\* close of the window
C23_Witness ==
  /\ StructureDone
  /\ <<"s", "t", "r", "u", "c", "t", "u", "r", "e", "-", "p", "u", "m", "p", "-", "d", "u", "m", "p">> \in IdsOf(call.ret)
  /\ LET w == YearOfCloses(call.arg.closeRaw)
     IN  /\ Len(w) = 25
         /\ w[1] = 100 /\ w[11] = 180 /\ w[25] = 117
         /\ \A k \in 12..24 : w[k] = 180

\* a rise of 90% followed by a fall of 20%: not emitted
C23_SmallFallCase ==
  /\ StructureDone
  /\ ~(<<"s", "t", "r", "u", "c", "t", "u", "r", "e", "-", "p", "u", "m", "p", "-", "d", "u", "m", "p">> \in IdsOf(call.ret))
  /\ LET w == YearOfCloses(call.arg.closeRaw)
     IN  /\ Len(w) = 25
         /\ w[1] = 100 /\ w[11] = 190
         /\ \E k \in 12..25 : w[k] = 152

\* the place of a stage in the order screener, filter, complete
StageRank(stage) ==
  CASE stage = "screener" -> 1 [] stage = "filter" -> 2 [] stage = "complete" -> 3
    [] OTHER -> 0

\* the stages of the progress events of a sequence are the three known ones and
\* never go back; a complete event is the only one, and what follows it at
\* once is the result event
StagesInOrder(seq) ==
  /\ \A k \in 1..Len(seq) : seq[k].type = "progress" => StageRank(seq[k].stage) > 0
  /\ \A k, m \in 1..Len(seq) :
       (k < m /\ seq[k].type = "progress" /\ seq[m].type = "progress")
         => StageRank(seq[k].stage) <= StageRank(seq[m].stage)
  /\ Len(StageEvents(seq, "complete")) <= 1
  /\ \A k \in 1..Len(seq) :
       IsProgress(seq[k], "complete")
         => /\ \A m \in 1..Len(seq) : IsProgress(seq[m], "filter") => m < k
            /\ k < Len(seq) => (k + 1 = Len(seq) /\ seq[k + 1].type = "result")

\* C24: every progress event has stage screener, filter or complete; the
\* stages never go backwards; there is at most one complete event, it comes
\* after every filter event and immediately before the result event, and a
\* result event of a run with filters has it right in front.
C24_StagesNeverGoBack ==
  /\ StagesInOrder(sent)
  /\ StagesInOrder(out)
  /\ \A k \in 1..Len(out) :
       (withFilters /\ out[k].type = "result")
         => (k > 1 /\ IsProgress(out[k - 1], "complete"))

\* a closed stream that went through the three stages: symbol reports and
\* sector events in the filter stage, then complete, then the result
C24_Witness ==
  /\ closed
  /\ Len(out) >= 6
  /\ Last(out).type = "result"
  /\ IsProgress(out[Len(out) - 1], "complete")
  /\ \E k, m \in 1..Len(out) :
       /\ k < m
       /\ IsSymbolReport(out[k]) /\ out[k].stage = "filter"
       /\ IsProgress(out[m], "filter") /\ out[m].msg = "sector"

\* the symbol was reported with the given outcome by the technical filter
Reported(sym, outcome) ==
  \E k \in 1..Len(sent) : IsSymbolReport(sent[k]) /\ sent[k].msg = outcome /\ sent[k].sym = sym

\* the discovered symbols that were reported as passed, in discovery order
PassingSymbols == SelectSeq(symbols, LAMBDA sym : Reported(sym, "passed"))

\* C25: in a run with filters the result's filtered.stocks holds exactly one
\* record per symbol that passed the technical filter, in the order of the
\* filtered list (a subsequence of discovery order), none for a failed or
\* skipped symbol, and filtered.total is its length; no profile, news or
\* search request is made for a symbol that did not pass.
C25_OneRecordPerPassingSymbol ==
  /\ \A r \in ResultsSent :
       sent[r].filtered # None =>
         LET f == sent[r].filtered[1]
         IN  /\ symbolsOf(f.stocks) = PassingSymbols
             /\ NoDuplicates(symbolsOf(f.stocks))
             /\ f.total = Len(f.stocks)
             /\ f.batches = splitIntoBatches(formatted(PassingSymbols), BATCH_SIZE)
             /\ \A m \in 1..Len(f.stocks) :
                  ~Reported(f.stocks[m].symbol, "failed")
                    /\ ~Reported(f.stocks[m].symbol, "skipped")
  /\ \A k \in 1..Len(filterTrace) :
       filterTrace[k].op \in {"profile", "news", "search"}
         => Reported(filterTrace[k].sym, "passed")

\* a result whose filtered stocks hold the record of the passing symbol, which
\* is outside the target sectors, and none for the symbol that failed or was
\* skipped
C25_Witness ==
  \E r \in ResultsSent :
    /\ sent[r].filtered # None
    /\ Len(sent[r].filtered[1].stocks) > Len(sent[r].sectorFiltered[1].stocks)
    /\ \E a \in {symbols[k] : k \in 1..Len(symbols)} :
         Reported(a, "failed") \/ Reported(a, "skipped")

\* the per-symbol reports of the technical filter and the per-symbol events of
\* the enrichment loop, in the order they were sent
SymbolReports == SelectSeq(sent, IsSymbolReport)
SectorEvents == SelectSeq(sent, LAMBDA e : e.type = "progress" /\ e.msg = "sector")

ProfileRequestsOf(trace) ==
  LET picked == SelectSeq(trace, LAMBDA t : t.op = "profile")
  IN  [k \in 1..Len(picked) |-> picked[k].sym]

\* the technical-filter loop is over: the enrichment loop was announced
FilterLoopOver ==
  \E k \in 1..Len(sent) : sent[k].type = "progress" /\ sent[k].msg = "sector_start"

\* C26: the k-th report of the filter loop is about the k-th discovered symbol
\* with current = k and total = the number of symbols, one report per symbol
\* once the loop is over; the k-th event of the enrichment loop is about the
\* k-th passing symbol, has been sent when its profile request is made, and
\* there is one per passing symbol once the result is sent.
C26_OneProgressEventPerSymbol ==
  /\ Len(SymbolReports) <= Len(symbols)
  /\ \A k \in 1..Len(SymbolReports) :
       /\ SymbolReports[k].sym = symbols[k]
       /\ SymbolReports[k].current = k
       /\ SymbolReports[k].total = Len(symbols)
  /\ FilterLoopOver => Len(SymbolReports) = Len(symbols)
  /\ Len(SectorEvents) <= Len(filtered)
  /\ \A k \in 1..Len(SectorEvents) :
       /\ SectorEvents[k].sym = filtered[k]
       /\ SectorEvents[k].current = k
       /\ SectorEvents[k].total = Len(filtered)
  /\ IsPrefix(ProfileRequestsOf(filterTrace), [k \in 1..Len(SectorEvents) |-> SectorEvents[k].sym])
  /\ (withFilters /\ ResultsSent # {}) => Len(SectorEvents) = Len(filtered)

\* two symbols reported, the first skipped or failed and the second passed at
\* position 2 of 2, and the passing one announced once before its profile
\* request
C26_Witness ==
  /\ Len(SymbolReports) = 2
  /\ SymbolReports[1].msg \in {"failed", "skipped"}
  /\ SymbolReports[2].msg = "passed" /\ SymbolReports[2].current = 2
  /\ Len(SectorEvents) = 1
  /\ ProfileRequestsOf(filterTrace) = <<symbols[2]>>
  /\ ResultsSent # {}

\* a feed item that may be selected: its date parses and is not older than a
\* year, its title and description hold an adverse keyword, and they refer to
\* the company
Eligible(raw, symbol, name) ==
  LET text == normalizeText(trim(raw.title) \o <<" ">> \o trim(raw.description))
  IN  /\ raw.age # None /\ raw.age[1] <= ONE_YEAR_DAYS
      /\ \E k \in 1..Len(ADVERSE_NEWS_KEYWORDS) : includes(text, ADVERSE_NEWS_KEYWORDS[k])
      /\ hasCompanyReference(text, symbol, name)

NewsDone == call.fn = "fetchAdverseNewsSignal" /\ call.done

\* the record just pushed was built after the feed request failed
NewsFailed ==
  /\ lastRisk.sym # <<>> /\ lastRisk.search # None
  /\ ~lastRisk.news[1].ok

\* C27: fetchAdverseNewsSignal gives at most one signal, made from the first
\* feed item that is recent, adverse and about the company; an item whose date
\* does not parse or is older than 365 days is never the one; a failed feed
\* gives no signal, and the record then holds the structural signals and what
\* the regulatory check alone gives.
C27_NewsSignalFromFirstEligibleItem ==
  /\ NewsDone =>
       LET a == call.arg
           hits == {k \in 1..Len(a.resp.items) : Eligible(a.resp.items[k], a.symbol, a.name)}
       IN  IF ~a.resp.ok \/ hits = {}
           THEN call.ret = None
           ELSE LET first == a.resp.items[CHOOSE k \in hits : \A m \in hits : k <= m]
                IN  /\ call.ret # None
                    /\ call.ret[1].id = NEWS_ID
                    /\ call.ret[1].details
                         = trim(first.title) \o <<" ", "(">> \o trim(first.pubDate) \o <<")">>
                    /\ call.ret[1].sourceUrl
                         = (IF trim(first.link) = <<>> THEN None ELSE Some(trim(first.link)))
                    /\ first.age # None /\ first.age[1] <= ONE_YEAR_DAYS
  /\ \A k \in 1..Len(sectorResults) :
       Cardinality({m \in 1..Len(sectorResults[k].warningSignals) :
                      sectorResults[k].warningSignals[m].category = "news"}) <= 1
  /\ NewsFailed =>
       LET rec == Last(sectorResults)
           sym == lastRisk.sym
           regulatory == sebiAdjudicationSignal(fetchDuckDuckGoResults(lastRisk.search[1]),
                                                sym, rec.name)
       IN  rec.warningSignals = mapGet(structureWarningsBySymbol, sym, <<>>) \o regulatory

\* the signal is made from the third item, a year old to the day, after an
\* undated item and an older one that both name the company with a keyword
C27_Witness ==
  /\ NewsDone
  /\ call.arg.resp.items = <<UndatedNews, OldNews, NameNews>>
  /\ call.arg.name = Some(<<"A", "c", "m", "e">>)
  /\ call.ret # None
  /\ call.ret[1].details = <<"A", "c", "m", "e", " ", " ", "i", "n", "s", "i", "d", "e", "r", " ", "t", "r", "a", "d", "i", "n", "g", " ", "(", "T", "u", "e", ")">>

\* a failed feed in the pipeline: the record still holds a structural and a
\* regulatory signal
C27_FailedFeedCase ==
  /\ NewsFailed
  /\ Len(Last(sectorResults).warningSignals) = 2
  /\ Last(sectorResults).warningSignals[1].category = "structure"
  /\ Last(sectorResults).warningSignals[2].category = "regulatory"

\* the categories whose list holds a label
CategoriesOf(label) ==
  {SECTOR_CATEGORIES[k].category :
     k \in {m \in 1..Len(SECTOR_CATEGORIES) : label \in SECTOR_CATEGORIES[m].industries}}

\* the table lookup of a label: its category, or null
TableLookup(label) ==
  IF CategoriesOf(label) = {} THEN None ELSE Some(CHOOSE c \in CategoriesOf(label) : TRUE)

ProfileDone == call.fn = "fetchSectorFromScreener" /\ call.done

\* C28: in the record of a fetched profile, category is the table lookup of
\* the industry when there is one (null when the industry is not in the table,
\* whatever the sector), the lookup of the sector when there is no industry,
\* and null when there is neither.
C28_CategoryFromIndustryFirst ==
  ProfileDone =>
    /\ Cardinality(CategoriesOf(call.arg.industry)) <= 1
    /\ call.ret.category =
         (IF call.arg.industry # "" THEN TableLookup(call.arg.industry)
          ELSE IF call.arg.sector # "" THEN TableLookup(call.arg.sector)
          ELSE None)

\* an industry outside the table with a sector inside it: no category
C28_Witness ==
  /\ ProfileDone
  /\ call.arg.industry = "Software" /\ call.arg.sector = "Finance"
  /\ call.ret.industry = Some("Software")
  /\ call.ret.category = None

\* no industry: the category of the sector
C28_SectorOnlyCase ==
  /\ ProfileDone
  /\ call.arg.industry = "" /\ call.arg.sector = "Banks"
  /\ call.ret.category = Some("PSU Banks")

\* C29 (as claimed): however the text of the response is cut into chunks, when
\* the read loop ends the page has handled every event the server sent exactly
\* once, in order and under its own type.
C29_EveryEventHandledOnce ==
  (call.fn = "handleFetch" /\ call.done) => handled = call.arg

\* with one chunk per event, as the server writes them, nothing is lost
C29_WholeEventChunksCase ==
  /\ call.fn = "handleFetch" /\ call.done
  /\ Len(call.arg) = 2
  /\ handled = call.arg

\* the ids a list of signals may hold, in the order they are appended
SignalOrder ==
  << <<"s", "t", "r", "u", "c", "t", "u", "r", "e", "-", "e", "x", "t", "r", "e", "m", "e", "-", "m", "o", "v", "e", "s">>, <<"s", "t", "r", "u", "c", "t", "u", "r", "e", "-", "v", "o", "l", "u", "m", "e", "-", "b", "u", "r", "s", "t">>, <<"s", "t", "r", "u", "c", "t", "u", "r", "e", "-", "p", "u", "m", "p", "-", "d", "u", "m", "p">>,
     <<"s", "t", "r", "u", "c", "t", "u", "r", "e", "-", "s", "p", "i", "k", "e", "-", "r", "e", "v", "e", "r", "s", "a", "l">>, <<"s", "t", "r", "u", "c", "t", "u", "r", "e", "-", "v", "o", "l", "-", "r", "e", "g", "i", "m", "e", "-", "s", "h", "i", "f", "t">>, NEWS_ID, SEBI_ID >>

\* every id is a known one and the ids follow the fixed order without repeats
InSignalOrder(list) ==
  /\ \A k \in 1..Len(list) : \E r \in 1..Len(SignalOrder) : SignalOrder[r] = list[k].id
  /\ \A k, m \in 1..Len(list) :
       k < m => \E r, t \in 1..Len(SignalOrder) :
                  r < t /\ SignalOrder[r] = list[k].id /\ SignalOrder[t] = list[m].id

RiskDone == call.fn = "fetchRiskSignals" /\ call.done

\* the record just pushed, with the answers behind it
RecordBuilt == lastRisk.sym # <<>> /\ lastRisk.search # None

\* C30: the ids of every list handed to the deduplication are pairwise
\* distinct and in the fixed order (the five structural rules, then news, then
\* regulatory), so the deduplication removes nothing and warningSignals has at
\* most 7 entries, as many as the structural rules triggered plus the textual
\* signals found.
C30_DistinctIdsNothingRemoved ==
  /\ RiskDone =>
       /\ InSignalOrder(call.ret.signals)
       /\ call.ret.warningSignals = call.ret.signals
       /\ Len(call.ret.warningSignals) <= 7
       /\ Len(call.ret.warningSignals) = Cardinality(IdsOf(call.ret.signals))
  /\ \A k \in 1..Len(sectorResults) :
       /\ InSignalOrder(sectorResults[k].warningSignals)
       /\ Len(sectorResults[k].warningSignals) <= 7
  /\ RecordBuilt =>
       LET rec == Last(sectorResults)
           sym == lastRisk.sym
       IN  Len(rec.warningSignals)
             = Len(mapGet(structureWarningsBySymbol, sym, <<>>))
               + Len(adverseNewsSignal(lastRisk.news[1], sym, rec.name))
               + Len(sebiAdjudicationSignal(fetchDuckDuckGoResults(lastRisk.search[1]),
                                            sym, rec.name))

\* all five rules, the news check and the regulatory check gave a signal: the
\* list of seven comes out of the deduplication whole
C30_Witness ==
  /\ RiskDone
  /\ Len(call.ret.signals) = 7
  /\ call.ret.warningSignals = call.ret.signals
  /\ [k \in 1..7 |-> call.ret.signals[k].id] = SignalOrder

====
